---- MODULE Spec2Model ----
(***************************************************************************)
(* PokeWhoAmI: the ingestion pipeline (init, fetchGenerationMappings,      *)
(* fetchPokemonList, fetchPokemonDetailsBatch, fetchPokemonDetails) and    *)
(* the session built on its catalog (filterPokemon and the handlers that   *)
(* setupEventListeners installs).  The repository holds two builds of the  *)
(* script: src/app.js and the earlier src/unnamed/part_000, which has a    *)
(* generation single/multiple mode and a type OR/AND mode and no species   *)
(* enrichment.  The variable build says which script is running.           *)
(***************************************************************************)
EXTENDS Integers, Sequences, FiniteSets, TLC

\* ===== BOUNDS =====
\* BATCH_SIZE is 30 in the code (src/app.js:28); the model runs it scaled down.
BATCH_SIZE == 2
\* The code fetches generations 1..9 (src/app.js:153); the model runs fewer.
NumGenerations == 3
\* The number of user actions a session is followed for.
MaxOps == 3

\* ===== CONSTANTS =====
MAX_POKEMON_ID == 1025
\* chosenPokemonId: null
NoChoice == 0

Builds == {"app", "part_000"}

\* The languages fetchPokemonDetails keeps (src/app.js:248).
TargetLanguages == {"en", "de", "es", "fr", "ja", "ko"}

\* ===== THE CATALOG SOURCE (the remote service's answers) =====
DigitChars == <<"0", "1", "2", "3", "4", "5", "6", "7", "8", "9">>

IsDigit(c) == \E i \in 1..10 : DigitChars[i] = c

DigitVal(c) == (CHOOSE i \in 1..10 : DigitChars[i] = c) - 1

RECURSIVE ParseDigits(_, _)
ParseDigits(s, acc) ==
  IF s = <<>> \/ ~IsDigit(Head(s)) THEN acc
  ELSE ParseDigits(Tail(s), acc * 10 + DigitVal(Head(s)))

\* parseInt: the value of the leading decimal digits, NaN when there are none.
ParseInt(s) ==
  IF s = <<>> \/ ~IsDigit(Head(s)) THEN [nan |-> TRUE, val |-> 0]
  ELSE [nan |-> FALSE, val |-> ParseDigits(s, 0)]

\* A reference of the list: its url as split at "/" would leave it, the parts
\* being character sequences, and the id its detail record carries.
Reference(idPart, dataId) ==
  [url |-> << <<"p", "o", "k", "e", "m", "o", "n">>, idPart, <<>> >>, dataId |-> dataId]

\* GET /pokemon?limit=10000: not in id order, with an alternate form (10001)
\* and an entry whose id part is no number.
PokemonList ==
  << Reference(<<"3">>, 3), Reference(<<"1">>, 1),
     Reference(<<"1", "0", "0", "0", "1">>, 10001),
     Reference(<<"2">>, 2), Reference(<<"x">>, 6),
     Reference(<<"4">>, 4), Reference(<<"5">>, 5) >>

\* GET /generation/i: the species names generation i lists.  "sd" is listed
\* twice, "se" never.
GenerationSpecies(i) ==
  CASE i = 1 -> {"sa", "sb"}
    [] i = 2 -> {"sc", "sd"}
    [] i = 3 -> {"sd"}
    [] OTHER -> {}

\* GET pokemon.url: the detail record (data.id, data.name, data.types,
\* data.species.name).
PokemonData(id) ==
  CASE id = 1 -> [id |-> 1, name |-> <<"a", "b">>, types |-> <<"fire">>, species |-> "sa"]
    [] id = 2 -> [id |-> 2, name |-> <<"b", "c">>, types |-> <<"fire", "flying">>, species |-> "sb"]
    [] id = 3 -> [id |-> 3, name |-> <<"c", "a">>, types |-> <<"water">>, species |-> "sc"]
    [] id = 4 -> [id |-> 4, name |-> <<"d", "a">>, types |-> <<"water", "flying">>, species |-> "sd"]
    [] OTHER -> [id |-> id, name |-> <<"e">>, types |-> <<"flying">>, species |-> "se"]

NameEntry(lang, name) == [language |-> lang, name |-> name]

\* GET data.species.url: names, flags, color ("none" when the species has no
\* color) and evolves_from_species ("none" when it has none).  The chain
\* sa <- sb <- sc <- sd is four species long.
SpeciesData(s) ==
  CASE s = "sa" -> [names |-> <<NameEntry("en", <<"A", "b">>), NameEntry("de", <<"X", "a">>)>>,
                    is_baby |-> TRUE, is_legendary |-> FALSE, is_mythical |-> FALSE,
                    color |-> "red", evolves_from_species |-> "none"]
    [] s = "sb" -> [names |-> <<NameEntry("en", <<"B", "c">>), NameEntry("it", <<"Y">>)>>,
                    is_baby |-> FALSE, is_legendary |-> FALSE, is_mythical |-> FALSE,
                    color |-> "red", evolves_from_species |-> "sa"]
    [] s = "sc" -> [names |-> <<NameEntry("de", <<"X", "c">>)>>,
                    is_baby |-> FALSE, is_legendary |-> FALSE, is_mythical |-> FALSE,
                    color |-> "blue", evolves_from_species |-> "sb"]
    [] s = "sd" -> [names |-> <<NameEntry("en", <<"D", "a">>), NameEntry("de", <<"d", "X">>)>>,
                    is_baby |-> FALSE, is_legendary |-> TRUE, is_mythical |-> FALSE,
                    color |-> "blue", evolves_from_species |-> "sc"]
    [] OTHER    -> [names |-> <<>>,
                    is_baby |-> FALSE, is_legendary |-> TRUE, is_mythical |-> TRUE,
                    color |-> "none", evolves_from_species |-> "none"]

\* ===== STATE =====
VARIABLES
  build,            \* which script runs: "app" or "part_000"
  pc,               \* where init() stands
  generationFetch,  \* per generation: "idle", "pending", "ok", "failed"
  generationMap,    \* state.generationMap
  listFetch,        \* the list request: "idle", "pending", "ok", "failed"
  batches,          \* fetchPokemonDetailsBatch's batches
  chain,            \* per batch and reference: its fetchPokemonDetails call
  batchIndex,       \* the i of the batch loop (0-based)
  allPokemon,       \* state.allPokemon
  progress,         \* the percentage last given to updateProgress, rounded
  loadingText,      \* loadingText.textContent, without the percentage
  loadingHidden,    \* the loading screen carries class hidden
  listeners,        \* setupEventListeners has run
  displayedPokemon, \* state.displayedPokemon
  disabledPokemon,  \* state.disabledPokemon
  chosenPokemonId,  \* state.chosenPokemonId
  currentLanguage,  \* state.currentLanguage
  currentFilters,   \* state.currentFilters
  typeCountState,   \* the type-count toggle's closure variable
  ops,              \* user actions so far
  lastOp            \* the handler that ran last, "none" before the first

ingestVars ==
  <<build, pc, generationFetch, generationMap, listFetch, batches, chain,
    batchIndex, allPokemon, progress, loadingText, loadingHidden, listeners>>

sessionVars ==
  <<displayedPokemon, disabledPokemon, chosenPokemonId, currentLanguage,
    currentFilters, typeCountState, ops, lastOp>>

vars == <<ingestVars, sessionVars>>

\* ===== HELPERS =====
Min(a, b) == IF a < b THEN a ELSE b

RECURSIVE Flatten(_)
Flatten(ss) == IF ss = <<>> THEN <<>> ELSE Head(ss) \o Flatten(Tail(ss))

\* A sort that leaves the list as it was pushed.
SortById_Unsorted(list) == list

\* Array.prototype.sort with (a, b) => a.id - b.id: stable, ascending by id.
\* The element at index i goes to the place after the elements of a smaller
\* id and the earlier elements of the same id.
SortById(list) ==
  LET n == Len(list)
      Before(j, i) == list[j].id < list[i].id \/ (list[j].id = list[i].id /\ j < i)
      Place(i) == 1 + Cardinality({j \in 1..n : Before(j, i)})
  IN [place \in 1..n |-> list[CHOOSE i \in 1..n : Place(i) = place]]

\* ===== fetchPokemonDetailsBatch: filter and batches =====
\* A filter that keeps every reference with a number, whatever its size.
KeepReference_AnyNumber(pokemon) ==
  LET urlParts == pokemon.url
      pokemonId == ParseInt(urlParts[Len(urlParts) - 1])
  IN ~pokemonId.nan

\* The filter's predicate: the second-to-last url part, parsed, is <= 1025
\* (NaN <= 1025 is false).
KeepReference(pokemon) ==
  LET urlParts == pokemon.url
      pokemonId == ParseInt(urlParts[Len(urlParts) - 1])
  IN ~pokemonId.nan /\ pokemonId.val <= MAX_POKEMON_ID

FilteredList(pokemonList) == SelectSeq(pokemonList, KeepReference)

\* Batches one reference wider than BATCH_SIZE.
RECURSIVE CreateBatches_Wide(_)
CreateBatches_Wide(list) ==
  IF list = <<>> THEN <<>>
  ELSE <<SubSeq(list, 1, Min(BATCH_SIZE + 1, Len(list)))>>
         \o CreateBatches_Wide(SubSeq(list, BATCH_SIZE + 2, Len(list)))

RECURSIVE CreateBatches(_)
CreateBatches(list) ==
  IF list = <<>> THEN <<>>
  ELSE <<SubSeq(list, 1, Min(BATCH_SIZE, Len(list)))>>
         \o CreateBatches(SubSeq(list, BATCH_SIZE + 1, Len(list)))

\* Math.round(20 + ((i + 1) / batches.length) * 75)
BatchProgress(i, n) == (2 * (20 * n + 75 * (i + 1)) + n) \div (2 * n)

\* ===== fetchPokemonDetails =====
\* The locals of one call before its first await answers; logged is the
\* request whose failure the call wrote to the console ("none" so far).
NewCall(st) ==
  [pc |-> st, logged |-> "none", names |-> <<>>, isBaby |-> FALSE, isLegendary |-> FALSE,
   isMythical |-> FALSE, color |-> "none", evolutionStage |-> 1, result |-> <<>>]

RECURSIVE ExtractNames(_, _)
ExtractNames(entries, names) ==
  IF entries = <<>> THEN names
  ELSE LET nameEntry == Head(entries)
       IN ExtractNames(Tail(entries),
            IF nameEntry.language \in TargetLanguages
            THEN (nameEntry.language :> nameEntry.name) @@ names
            ELSE names)

\* The lookup without its "|| 1".
GenerationOf_NoDefault(species) ==
  IF species \in DOMAIN generationMap THEN generationMap[species] ELSE 0

\* state.generationMap[data.species.name] || 1
GenerationOf(species) ==
  IF species \in DOMAIN generationMap THEN generationMap[species] ELSE 1

\* The object fetchPokemonDetails returns (the sprite left out).
PokemonRecord(data, c) ==
  IF build = "app"
  THEN [id |-> data.id, name |-> data.name, names |-> c.names, types |-> data.types,
        generation |-> GenerationOf(data.species), evolutionStage |-> c.evolutionStage,
        isBaby |-> c.isBaby, isLegendary |-> c.isLegendary,
        isMythical |-> c.isMythical, color |-> c.color]
  ELSE [id |-> data.id, name |-> data.name, types |-> data.types,
        generation |-> GenerationOf(data.species)]

Returned(data, c) == [c EXCEPT !.pc = "done", !.result = <<PokemonRecord(data, c)>>]

\* The outer catch: console.error, return null.
OuterCatch(c) == [c EXCEPT !.pc = "done", !.result = <<>>]

\* An inner catch that gives the call up, as the outer one does.
InnerCatch_Drop(data, c) == OuterCatch(c)

\* The inner catch: console.warn, and the call goes on to its return.
InnerCatch(data, c) == Returned(data, c)

\* What the species answer leaves in the call's locals.
WithSpecies(c, speciesData) ==
  [c EXCEPT !.names = ExtractNames(speciesData.names, <<>>),
            !.isBaby = speciesData.is_baby,
            !.isLegendary = speciesData.is_legendary,
            !.isMythical = speciesData.is_mythical,
            !.color = speciesData.color]

\* Stage 3 when the previous species itself evolves from one, else 2.
StageFromPrevious(prevSpeciesData) ==
  IF prevSpeciesData.evolves_from_species # "none" THEN 3 ELSE 2

DataOf(b, k) == PokemonData(batches[b][k].dataId)

\* A Promise.race in place of Promise.all: one returned call is enough.
BatchResolved_Any(b) == \E k \in 1..Len(batches[b]) : chain[b][k].pc = "done"

\* An await of the batch's first promise alone.
BatchResolved_First(b) == chain[b][1].pc = "done"

\* Promise.all(batchPromises) has resolved: every call of the batch returned.
BatchResolved(b) == \A k \in 1..Len(batches[b]) : chain[b][k].pc = "done"

\* ===== INITIAL STATE =====
\* state.currentFilters as the script builds it.  src/app.js has neither
\* generationMode nor typeMode: its generation handler is the multiple-mode
\* one and its type filter the AND one.  generations and notGenerations are
\* kept in insertion order, which the mode toggle of part_000 reads.
InitialFilters ==
  [generations |-> <<>>, notGenerations |-> <<>>,
   generationMode |-> IF build = "app" THEN "multiple" ELSE "single",
   types |-> {}, notTypes |-> {},
   typeMode |-> IF build = "app" THEN "and" ELSE "or",
   typeCount |-> {}, notTypeCount |-> {},
   evolutionStages |-> {}, notEvolutionStages |-> {},
   specialCategories |-> {}, notSpecialCategories |-> {},
   colors |-> {}, notColors |-> {},
   name |-> <<>>]

Init ==
  /\ build \in Builds
  /\ pc = "start"
  /\ generationFetch = [i \in 1..NumGenerations |-> "idle"]
  /\ generationMap = <<>>
  /\ listFetch = "idle"
  /\ batches = <<>>
  /\ chain = <<>>
  /\ batchIndex = 0
  /\ allPokemon = <<>>
  /\ progress = 0
  /\ loadingText = ""
  /\ loadingHidden = FALSE
  /\ listeners = FALSE
  /\ displayedPokemon = <<>>
  /\ disabledPokemon = {}
  /\ chosenPokemonId = NoChoice
  /\ currentLanguage = "en"
  /\ currentFilters = InitialFilters
  /\ typeCountState = "both"
  /\ ops = 0
  /\ lastOp = "none"

\* ===== INGESTION =====
\* The languages the language selector offers and localStorage may hold.
LanguageOptions == {"en", "de", "ja"}

\* An init() that installs the listeners before it fetches anything.
StartInit_ListenersFirst ==
  /\ pc = "start"
  /\ pc' = "generations"
  /\ loadingHidden' = FALSE
  /\ generationFetch' = [i \in 1..NumGenerations |-> "pending"]
  /\ listeners' = TRUE
  /\ UNCHANGED <<build, generationMap, listFetch, batches, chain, batchIndex,
                 allPokemon, progress, loadingText, sessionVars>>

\* init() up to its first await: showLoading, then fetchGenerationMappings
\* issues every generation request.
StartInit ==
  /\ pc = "start"
  /\ pc' = "generations"
  /\ loadingHidden' = FALSE
  /\ generationFetch' = [i \in 1..NumGenerations |-> "pending"]
  /\ UNCHANGED <<build, generationMap, listFetch, batches, chain, batchIndex,
                 allPokemon, progress, loadingText, listeners, sessionVars>>

\* state.generationMap[species.name] = i for every species generation i
\* lists: an entry the map already holds is overwritten.
MapSpecies(map, i) == [s \in GenerationSpecies(i) |-> i] @@ map

\* The answer of generation i: every species it lists is mapped to i.
GenerationLoaded(i) ==
  /\ pc = "generations"
  /\ generationFetch[i] = "pending"
  /\ generationFetch' = [generationFetch EXCEPT ![i] = "ok"]
  /\ generationMap' = MapSpecies(generationMap, i)
  /\ UNCHANGED <<build, pc, listFetch, batches, chain, batchIndex, allPokemon,
                 progress, loadingText, loadingHidden, listeners, sessionVars>>

\* The request of generation i fails: caught and logged.
GenerationFailed(i) ==
  /\ pc = "generations"
  /\ generationFetch[i] = "pending"
  /\ generationFetch' = [generationFetch EXCEPT ![i] = "failed"]
  /\ UNCHANGED <<build, pc, generationMap, listFetch, batches, chain, batchIndex,
                 allPokemon, progress, loadingText, loadingHidden, listeners, sessionVars>>

\* A Promise.race in place of Promise.all: one settled request is enough.
GenerationsResolved_Any == \E i \in 1..NumGenerations : generationFetch[i] \in {"ok", "failed"}

\* A Promise.all over requests that do not catch: it waits for every answer.
GenerationsResolved_OnlyOk == \A i \in 1..NumGenerations : generationFetch[i] = "ok"

\* Promise.all(generationPromises) has resolved.
GenerationsResolved == \A i \in 1..NumGenerations : generationFetch[i] \in {"ok", "failed"}

\* fetchGenerationMappings returns; fetchPokemonList issues the list request.
GenerationsSettled ==
  /\ pc = "generations"
  /\ GenerationsResolved
  /\ pc' = "list"
  /\ listFetch' = "pending"
  /\ progress' = 15
  /\ loadingText' = "Fetching Pokemon list..."
  /\ UNCHANGED <<build, generationFetch, generationMap, batches, chain, batchIndex,
                 allPokemon, loadingHidden, listeners, sessionVars>>

\* init() steps 4 to 7: sort, copy to displayedPokemon, setupEventListeners
\* (which loads the saved language in src/app.js), hideLoading.
Loaded(catalog, savedLanguage) ==
  /\ pc' = "loaded"
  /\ allPokemon' = SortById(catalog)
  /\ displayedPokemon' = allPokemon'
  /\ progress' = 100
  /\ loadingText' = "Loading complete!"
  /\ listeners' = TRUE
  /\ loadingHidden' = TRUE
  /\ currentLanguage' = IF build = "app" THEN savedLanguage ELSE currentLanguage
  /\ UNCHANGED <<disabledPokemon, chosenPokemonId, currentFilters, typeCountState, ops,
                 lastOp>>

\* Every call of batch b runs to its first await: the detail request.
StartBatch(calls, b) ==
  [x \in 1..Len(calls) |->
     IF x = b THEN [k \in 1..Len(calls[x]) |-> NewCall("detail")] ELSE calls[x]]

\* The list answers: the filter, the batches, and the first batch's calls.
ListLoaded ==
  /\ pc = "list"
  /\ listFetch' = "ok"
  /\ LET made == CreateBatches(FilteredList(PokemonList))
         idle == [b \in 1..Len(made) |-> [k \in 1..Len(made[b]) |-> NewCall("idle")]]
     IN /\ batches' = made
        /\ batchIndex' = 0
        /\ IF made = <<>>
           THEN /\ chain' = idle
                /\ \E savedLanguage \in LanguageOptions : Loaded(allPokemon, savedLanguage)
           ELSE /\ chain' = StartBatch(idle, 1)
                /\ pc' = "batch"
                /\ progress' = 20
                /\ loadingText' = "Found Pokemon..."
                /\ UNCHANGED <<allPokemon, loadingHidden, listeners, sessionVars>>
  /\ UNCHANGED <<build, generationFetch, generationMap>>

\* A list failure that fetchPokemonList swallows, going on with no references.
ListFailed_Swallowed ==
  /\ pc = "list"
  /\ listFetch' = "failed"
  /\ batches' = <<>>
  /\ chain' = <<>>
  /\ batchIndex' = 0
  /\ \E savedLanguage \in LanguageOptions : Loaded(allPokemon, savedLanguage)
  /\ UNCHANGED <<build, generationFetch, generationMap>>

\* The list request fails: init's catch shows the error text.
ListFailed ==
  /\ pc = "list"
  /\ pc' = "failed"
  /\ listFetch' = "failed"
  /\ loadingText' = "Error loading Pokemon. Please refresh."
  /\ UNCHANGED <<build, generationFetch, generationMap, batches, chain, batchIndex,
                 allPokemon, progress, loadingHidden, listeners, sessionVars>>

CallUnchanged ==
  UNCHANGED <<build, pc, generationFetch, generationMap, listFetch, batches,
              batchIndex, allPokemon, progress, loadingText, loadingHidden, listeners, sessionVars>>

\* The detail request of call (b, k) answers.  src/app.js goes on to the
\* species request; part_000 returns the record.
DetailLoaded(b, k) ==
  /\ pc = "batch"
  /\ chain[b][k].pc = "detail"
  /\ chain' = [chain EXCEPT ![b][k] =
                 IF build = "app" THEN [@ EXCEPT !.pc = "species"]
                 ELSE Returned(DataOf(b, k), @)]
  /\ CallUnchanged

\* The detail request fails: the outer catch returns null.
DetailFailed(b, k) ==
  /\ pc = "batch"
  /\ chain[b][k].pc = "detail"
  /\ chain' = [chain EXCEPT ![b][k] = OuterCatch([@ EXCEPT !.logged = "detail"])]
  /\ CallUnchanged

\* The species request answers: names, flags and color are taken; a species
\* that evolves from another has the previous species requested.
SpeciesLoaded(b, k) ==
  /\ pc = "batch"
  /\ chain[b][k].pc = "species"
  /\ LET speciesData == SpeciesData(DataOf(b, k).species)
         c == WithSpecies(chain[b][k], speciesData)
     IN chain' = [chain EXCEPT ![b][k] =
                    IF speciesData.evolves_from_species # "none"
                    THEN [c EXCEPT !.pc = "prev"]
                    ELSE Returned(DataOf(b, k), c)]
  /\ CallUnchanged

\* The species request fails: the inner catch logs, the record is returned
\* with the locals as they stand.
SpeciesFailed(b, k) ==
  /\ pc = "batch"
  /\ chain[b][k].pc = "species"
  /\ chain' = [chain EXCEPT ![b][k] = InnerCatch(DataOf(b, k), [@ EXCEPT !.logged = "species"])]
  /\ CallUnchanged

\* The previous species answers: the stage is 2 or 3.
PreviousLoaded(b, k) ==
  /\ pc = "batch"
  /\ chain[b][k].pc = "prev"
  /\ LET speciesData == SpeciesData(DataOf(b, k).species)
         prevSpeciesData == SpeciesData(speciesData.evolves_from_species)
     IN chain' = [chain EXCEPT ![b][k] =
                    Returned(DataOf(b, k),
                             [@ EXCEPT !.evolutionStage = StageFromPrevious(prevSpeciesData)])]
  /\ CallUnchanged

\* The previous species request fails: the inner catch logs, the record is
\* returned with the locals as they stand.
PreviousFailed(b, k) ==
  /\ pc = "batch"
  /\ chain[b][k].pc = "prev"
  /\ chain' = [chain EXCEPT ![b][k] = InnerCatch(DataOf(b, k), [@ EXCEPT !.logged = "prev"])]
  /\ CallUnchanged

\* The batch's results with an entry of no fields but id kept for each null.
BatchResults_KeepNull(b) ==
  Flatten([k \in 1..Len(chain[b]) |->
             IF chain[b][k].result = <<>> THEN <<[id |-> NoChoice]>>
             ELSE chain[b][k].result])

\* batchResults.filter(p => p !== null), in the batch's order.
BatchResults(b) == Flatten([k \in 1..Len(chain[b]) |-> chain[b][k].result])

\* Promise.all of the current batch resolves: its records are pushed, the
\* progress is updated, and the next batch starts or init() goes on.
BatchSettled ==
  /\ pc = "batch"
  /\ BatchResolved(batchIndex + 1)
  /\ LET pushed == allPokemon \o BatchResults(batchIndex + 1)
     IN IF batchIndex + 1 < Len(batches)
        THEN /\ allPokemon' = pushed
             /\ batchIndex' = batchIndex + 1
             /\ chain' = StartBatch(chain, batchIndex + 2)
             /\ progress' = BatchProgress(batchIndex, Len(batches))
             /\ loadingText' = "Loading Pokemon..."
             /\ UNCHANGED <<pc, loadingHidden, listeners, sessionVars>>
        ELSE /\ \E savedLanguage \in LanguageOptions : Loaded(pushed, savedLanguage)
             /\ UNCHANGED <<batchIndex, chain>>
  /\ UNCHANGED <<build, generationFetch, generationMap, listFetch, batches>>

\* ===== FILTER =====
UpperChars == <<"A", "B", "C", "D", "E", "X", "Y">>

LowerChars == <<"a", "b", "c", "d", "e", "x", "y">>

\* String.prototype.toLowerCase, character by character.
ToLowerCase(str) ==
  [i \in 1..Len(str) |->
     IF \E u \in 1..Len(UpperChars) : UpperChars[u] = str[i]
     THEN LowerChars[CHOOSE u \in 1..Len(UpperChars) : UpperChars[u] = str[i]]
     ELSE str[i]]

\* String.prototype.includes
Includes(str, term) ==
  \E i \in 0..(Len(str) - Len(term)) : SubSeq(str, i + 1, i + Len(term)) = term

\* getDisplayName: the name in the current language, else pokemon.name.
GetDisplayName(pokemon, language) ==
  IF language \notin DOMAIN pokemon.names \/ pokemon.names[language] = <<>>
  THEN pokemon.name
  ELSE pokemon.names[language]

\* A Set kept in insertion order: has, add, delete.
Has(set, x) == \E i \in 1..Len(set) : set[i] = x

Add(set, x) == IF Has(set, x) THEN set ELSE Append(set, x)

RECURSIVE Delete(_, _)
Delete(set, x) ==
  IF set = <<>> THEN <<>>
  ELSE IF Head(set) = x THEN Tail(set)
  ELSE <<Head(set)>> \o Delete(Tail(set), x)

Some(list, x) == \E i \in 1..Len(list) : list[i] = x

\* A name filter that searches the current language's name only.
NameMatches_CurrentLanguageOnly(p, name, language) ==
  Includes(ToLowerCase(GetDisplayName(p, language)), ToLowerCase(name))

\* The name filter of src/app.js: the current language's name, then name.
NameMatches(p, name, language) ==
  LET searchTerm == ToLowerCase(name)
  IN \/ Includes(ToLowerCase(GetDisplayName(p, language)), searchTerm)
     \/ Includes(ToLowerCase(p.name), searchTerm)

\* The name filter of part_000: name only.
NameMatchesOld(p, name) == Includes(ToLowerCase(p.name), ToLowerCase(name))

\* A type filter that asks for every selected type in either mode.
TypesMatch_AlwaysAnd(p, types, typeMode) == \A type \in types : Some(p.types, type)

\* The type filter: every selected type (AND), or at least one (OR, part_000).
TypesMatch(p, types, typeMode) ==
  IF typeMode = "and"
  THEN \A type \in types : Some(p.types, type)
  ELSE \E i \in 1..Len(p.types) : p.types[i] \in types

\* A type-count test that knows single only.
TypeCountMatches_SingleOnly(p, typeCount) == "single" \in typeCount /\ Len(p.types) = 1

TypeCountMatches(p, typeCount) ==
  \/ "single" \in typeCount /\ Len(p.types) = 1
  \/ "dual" \in typeCount /\ Len(p.types) = 2

\* A special test that asks for every selected category.
SpecialMatches_All(p, specialCategories) ==
  /\ "baby" \in specialCategories => p.isBaby
  /\ "legendary" \in specialCategories => p.isLegendary
  /\ "mythical" \in specialCategories => p.isMythical

SpecialMatches(p, specialCategories) ==
  \/ "baby" \in specialCategories /\ p.isBaby
  \/ "legendary" \in specialCategories /\ p.isLegendary
  \/ "mythical" \in specialCategories /\ p.isMythical

\* A color test that lets a Pokemon of no color pass.
ColorMatches_NoColorPasses(p, colors) == p.color = "none" \/ p.color \in colors

\* p.color && colors.has(p.color)
ColorMatches(p, colors) == p.color # "none" /\ p.color \in colors

\* One "if (set.size > 0) filtered = filtered.filter(test)".
\* A pass that leaves the list as it is.
FilterIf_Skipped(active, filtered, test) == filtered

\* test gives the callback's answer for each Pokemon of the catalog.
FilterIf(active, filtered, test) ==
  IF active THEN SelectSeq(filtered, LAMBDA p : test[p]) ELSE filtered

\* filterPokemon: the filters one after the other, each on the result of the
\* one before.  part_000 ends after the NOT types.
FilterPokemon(all, f, language) ==
  LET Pokemon == {all[i] : i \in 1..Len(all)}
      ByName == [p \in Pokemon |->
                   IF build = "app" THEN NameMatches(p, f.name, language)
                   ELSE NameMatchesOld(p, f.name)]
      f1 == FilterIf(f.name # <<>>, all, ByName)
      ByGeneration == [p \in Pokemon |-> Has(f.generations, p.generation)]
      f2 == FilterIf(Len(f.generations) > 0, f1, ByGeneration)
      ByNotGeneration ==
        [p \in Pokemon |-> ~Has(f.notGenerations, p.generation)]
      f3 == FilterIf(Len(f.notGenerations) > 0, f2, ByNotGeneration)
      ByType == [p \in Pokemon |-> TypesMatch(p, f.types, f.typeMode)]
      f4 == FilterIf(Cardinality(f.types) > 0, f3, ByType)
      ByNotType ==
        [p \in Pokemon |->
           ~(\E i \in 1..Len(p.types) : p.types[i] \in f.notTypes)]
      f5 == FilterIf(Cardinality(f.notTypes) > 0, f4, ByNotType)
      ByTypeCount == [p \in Pokemon |-> TypeCountMatches(p, f.typeCount)]
      f6 == FilterIf(Cardinality(f.typeCount) > 0, f5, ByTypeCount)
      ByNotTypeCount ==
        [p \in Pokemon |-> ~TypeCountMatches(p, f.notTypeCount)]
      f7 == FilterIf(Cardinality(f.notTypeCount) > 0, f6, ByNotTypeCount)
      ByStage == [p \in Pokemon |-> p.evolutionStage \in f.evolutionStages]
      f8 == FilterIf(Cardinality(f.evolutionStages) > 0, f7, ByStage)
      ByNotStage ==
        [p \in Pokemon |-> p.evolutionStage \notin f.notEvolutionStages]
      f9 == FilterIf(Cardinality(f.notEvolutionStages) > 0, f8, ByNotStage)
      BySpecial ==
        [p \in Pokemon |-> SpecialMatches(p, f.specialCategories)]
      f10 == FilterIf(Cardinality(f.specialCategories) > 0, f9, BySpecial)
      ByNotSpecial ==
        [p \in Pokemon |-> ~SpecialMatches(p, f.notSpecialCategories)]
      f11 == FilterIf(Cardinality(f.notSpecialCategories) > 0, f10, ByNotSpecial)
      ByColor == [p \in Pokemon |-> ColorMatches(p, f.colors)]
      f12 == FilterIf(Cardinality(f.colors) > 0, f11, ByColor)
      ByNotColor ==
        [p \in Pokemon |-> p.color = "none" \/ p.color \notin f.notColors]
      f13 == FilterIf(Cardinality(f.notColors) > 0, f12, ByNotColor)
  IN IF build = "app" THEN f13 ELSE f5

\* ===== SESSION: the handlers setupEventListeners installs =====
\* The values the filter buttons and the search box offer.
GenerationButtons == 1..NumGenerations

TypeButtons == {"fire", "flying", "water"}

EvolutionButtons == {1, 2, 3}

SpecialButtons == {"baby", "legendary", "mythical"}

ColorButtons == {"red", "blue"}

NameQueries == {<<>>, <<"a">>, <<"X">>}

\* A handler whose filtering narrows state.allPokemon itself, not a copy:
\* the catalog becomes the list on display.
UserStep_FiltersInPlace(op) ==
  /\ listeners
  /\ ops < MaxOps
  /\ ops' = ops + 1
  /\ lastOp' = op
  /\ allPokemon' = displayedPokemon
  /\ UNCHANGED <<build, pc, generationFetch, generationMap, listFetch, batches, chain,
                 batchIndex, progress, loadingText, loadingHidden, listeners>>

\* The handler op runs: the listeners are installed, and the session is bounded.
UserStep(op) ==
  /\ listeners
  /\ ops < MaxOps
  /\ ops' = ops + 1
  /\ lastOp' = op
  /\ UNCHANGED ingestVars

\* A filterPokemon that consumes the name it has searched for.
Refilter_ClearsName(f, language) ==
  /\ currentFilters' = [f EXCEPT !.name = <<>>]
  /\ displayedPokemon' = FilterPokemon(allPokemon, f, language)

\* The handler's last call: filterPokemon on the filters it has set.
Refilter(f, language) ==
  /\ currentFilters' = f
  /\ displayedPokemon' = FilterPokemon(allPokemon, f, language)

\* nameSearchInput's input handler.
NameInput(value) ==
  /\ UserStep("NameInput")
  /\ Refilter([currentFilters EXCEPT !.name = value], currentLanguage)
  /\ UNCHANGED <<disabledPokemon, chosenPokemonId, currentLanguage, typeCountState>>

\* A cycle whose second click unselects the generation.
GenerationCycle_NoExclude(f, genNumber) ==
  IF Has(f.generations, genNumber)
  THEN [f EXCEPT !.generations = Delete(@, genNumber)]
  ELSE [f EXCEPT !.generations = Add(@, genNumber)]

\* The cycle unselected -> active -> not -> unselected of a generation button.
GenerationCycle(f, genNumber) ==
  LET isActive == Has(f.generations, genNumber)
      isNot == Has(f.notGenerations, genNumber)
  IN IF ~isActive /\ ~isNot
     THEN [f EXCEPT !.generations = Add(@, genNumber)]
     ELSE IF isActive
     THEN [f EXCEPT !.generations = Delete(@, genNumber),
                    !.notGenerations = Add(@, genNumber)]
     ELSE [f EXCEPT !.notGenerations = Delete(@, genNumber)]

\* A single mode that forgets to clear the two sets first.
GenerationCycleSingle_NoClear(f, genNumber) == GenerationCycle(f, genNumber)

\* part_000 in single mode: both sets are cleared, then the button cycles
\* from the state it had before.
GenerationCycleSingle(f, genNumber) ==
  LET isActive == Has(f.generations, genNumber)
      isNot == Has(f.notGenerations, genNumber)
      cleared == [f EXCEPT !.generations = <<>>, !.notGenerations = <<>>]
  IN IF ~isActive /\ ~isNot
     THEN [cleared EXCEPT !.generations = Add(@, genNumber)]
     ELSE IF isActive
     THEN [cleared EXCEPT !.generations = Delete(@, genNumber),
                          !.notGenerations = Add(@, genNumber)]
     ELSE [cleared EXCEPT !.notGenerations = Delete(@, genNumber)]

\* The filters a click on generation button genNumber leaves, in the mode f
\* is in.
GenerationClicked(f, genNumber) ==
  IF f.generationMode = "single"
  THEN GenerationCycleSingle(f, genNumber)
  ELSE GenerationCycle(f, genNumber)

\* A generation button other than "all".
GenerationClick(genNumber) ==
  /\ UserStep("GenerationClick")
  /\ Refilter(GenerationClicked(currentFilters, genNumber), currentLanguage)
  /\ UNCHANGED <<disabledPokemon, chosenPokemonId, currentLanguage, typeCountState>>

\* An "all" button that clears the included generations only.
GenerationAll_KeepNot ==
  /\ UserStep("GenerationAll")
  /\ Refilter([currentFilters EXCEPT !.generations = <<>>], currentLanguage)
  /\ UNCHANGED <<disabledPokemon, chosenPokemonId, currentLanguage, typeCountState>>

\* The generation button "all".
GenerationAll ==
  /\ UserStep("GenerationAll")
  /\ Refilter([currentFilters EXCEPT !.generations = <<>>, !.notGenerations = <<>>],
              currentLanguage)
  /\ UNCHANGED <<disabledPokemon, chosenPokemonId, currentLanguage, typeCountState>>

\* A collapse that keeps the generation selected last.
CollapseToSingle_KeepsLast(f) ==
  LET totalSelections == Len(f.generations) + Len(f.notGenerations)
      cleared == [f EXCEPT !.generations = <<>>, !.notGenerations = <<>>]
  IN IF totalSelections > 1
     THEN IF f.generations # <<>>
          THEN [cleared EXCEPT !.generations = Add(@, f.generations[Len(f.generations)])]
          ELSE [cleared EXCEPT !.notGenerations =
                                 Add(@, f.notGenerations[Len(f.notGenerations)])]
     ELSE f

\* part_000's generation mode toggle, to single: with more than one selection
\* the first selected generation is kept, else the first excluded one.
CollapseToSingle(f) ==
  LET totalSelections == Len(f.generations) + Len(f.notGenerations)
      cleared == [f EXCEPT !.generations = <<>>, !.notGenerations = <<>>]
  IN IF totalSelections > 1
     THEN IF f.generations # <<>>
          THEN [cleared EXCEPT !.generations = Add(@, f.generations[1])]
          ELSE IF f.notGenerations # <<>>
          THEN [cleared EXCEPT !.notGenerations = Add(@, f.notGenerations[1])]
          ELSE cleared
     ELSE f

GenModeToggle ==
  /\ build = "part_000"
  /\ UserStep("GenModeToggle")
  /\ Refilter(IF currentFilters.generationMode = "single"
              THEN [currentFilters EXCEPT !.generationMode = "multiple"]
              ELSE CollapseToSingle([currentFilters EXCEPT !.generationMode = "single"]),
              currentLanguage)
  /\ UNCHANGED <<disabledPokemon, chosenPokemonId, currentLanguage, typeCountState>>

\* part_000's type mode toggle.
TypeModeToggle ==
  /\ build = "part_000"
  /\ UserStep("TypeModeToggle")
  /\ Refilter([currentFilters EXCEPT !.typeMode = IF @ = "or" THEN "and" ELSE "or"],
              currentLanguage)
  /\ UNCHANGED <<disabledPokemon, chosenPokemonId, currentLanguage, typeCountState>>

\* A cycle whose step active -> not forgets types.delete.
TypeCycle_NoDelete(f, clickedType) ==
  LET isActive == clickedType \in f.types
      isNot == clickedType \in f.notTypes
  IN IF ~isActive /\ ~isNot
     THEN [f EXCEPT !.types = @ \cup {clickedType}]
     ELSE IF isActive
     THEN [f EXCEPT !.notTypes = @ \cup {clickedType}]
     ELSE [f EXCEPT !.notTypes = @ \ {clickedType}]

TypeCycle(f, clickedType) ==
  LET isActive == clickedType \in f.types
      isNot == clickedType \in f.notTypes
  IN IF ~isActive /\ ~isNot
     THEN [f EXCEPT !.types = @ \cup {clickedType}]
     ELSE IF isActive
     THEN [f EXCEPT !.types = @ \ {clickedType}, !.notTypes = @ \cup {clickedType}]
     ELSE [f EXCEPT !.notTypes = @ \ {clickedType}]

\* A type button other than "all".
TypeClick(clickedType) ==
  /\ UserStep("TypeClick")
  /\ Refilter(TypeCycle(currentFilters, clickedType), currentLanguage)
  /\ UNCHANGED <<disabledPokemon, chosenPokemonId, currentLanguage, typeCountState>>

\* A type button "all" that also enables every Pokemon again.
TypeAll_EnablesAll ==
  /\ UserStep("TypeAll")
  /\ Refilter([currentFilters EXCEPT !.types = {}, !.notTypes = {}], currentLanguage)
  /\ disabledPokemon' = {}
  /\ UNCHANGED <<chosenPokemonId, currentLanguage, typeCountState>>

\* The type button "all".
TypeAll ==
  /\ UserStep("TypeAll")
  /\ Refilter([currentFilters EXCEPT !.types = {}, !.notTypes = {}], currentLanguage)
  /\ UNCHANGED <<disabledPokemon, chosenPokemonId, currentLanguage, typeCountState>>

\* A toggle whose third position excludes dual, as a value button would.
TypeCountCycle_Excludes(f, st) ==
  LET cleared == [f EXCEPT !.typeCount = {}, !.notTypeCount = {}]
  IN CASE st = "both" ->
            [state |-> "single", filters |-> [cleared EXCEPT !.typeCount = {"single"}]]
       [] st = "single" ->
            [state |-> "dual", filters |-> [cleared EXCEPT !.notTypeCount = {"dual"}]]
       [] OTHER ->
            [state |-> "both", filters |-> cleared]

\* The type-count toggle's click: typeCount is cleared, then the closure
\* variable st moves both -> single -> dual -> both and typeCount takes the
\* new position's value.  notTypeCount is not written.
TypeCountCycle(f, st) ==
  LET cleared == [f EXCEPT !.typeCount = {}]
  IN CASE st = "both" ->
            [state |-> "single", filters |-> [cleared EXCEPT !.typeCount = @ \cup {"single"}]]
       [] st = "single" ->
            [state |-> "dual", filters |-> [cleared EXCEPT !.typeCount = @ \cup {"dual"}]]
       [] OTHER ->
            [state |-> "both", filters |-> [cleared EXCEPT !.typeCount = {}]]

\* The type-count toggle of src/app.js.
TypeCountToggle ==
  /\ build = "app"
  /\ UserStep("TypeCountToggle")
  /\ typeCountState' = TypeCountCycle(currentFilters, typeCountState).state
  /\ Refilter(TypeCountCycle(currentFilters, typeCountState).filters, currentLanguage)
  /\ UNCHANGED <<disabledPokemon, chosenPokemonId, currentLanguage>>

EvolutionCycle(f, stageNumber) ==
  LET isActive == stageNumber \in f.evolutionStages
      isNot == stageNumber \in f.notEvolutionStages
  IN IF ~isActive /\ ~isNot
     THEN [f EXCEPT !.evolutionStages = @ \cup {stageNumber}]
     ELSE IF isActive
     THEN [f EXCEPT !.evolutionStages = @ \ {stageNumber},
                    !.notEvolutionStages = @ \cup {stageNumber}]
     ELSE [f EXCEPT !.notEvolutionStages = @ \ {stageNumber}]

\* An evolution stage button other than "all".
EvolutionClick(stageNumber) ==
  /\ build = "app"
  /\ UserStep("EvolutionClick")
  /\ Refilter(EvolutionCycle(currentFilters, stageNumber), currentLanguage)
  /\ UNCHANGED <<disabledPokemon, chosenPokemonId, currentLanguage, typeCountState>>

\* The evolution stage button "all".
EvolutionAll ==
  /\ build = "app"
  /\ UserStep("EvolutionAll")
  /\ Refilter([currentFilters EXCEPT !.evolutionStages = {}, !.notEvolutionStages = {}],
              currentLanguage)
  /\ UNCHANGED <<disabledPokemon, chosenPokemonId, currentLanguage, typeCountState>>

SpecialCycle(f, clickedCategory) ==
  LET isActive == clickedCategory \in f.specialCategories
      isNot == clickedCategory \in f.notSpecialCategories
  IN IF ~isActive /\ ~isNot
     THEN [f EXCEPT !.specialCategories = @ \cup {clickedCategory}]
     ELSE IF isActive
     THEN [f EXCEPT !.specialCategories = @ \ {clickedCategory},
                    !.notSpecialCategories = @ \cup {clickedCategory}]
     ELSE [f EXCEPT !.notSpecialCategories = @ \ {clickedCategory}]

\* A special category button.
SpecialClick(clickedCategory) ==
  /\ build = "app"
  /\ UserStep("SpecialClick")
  /\ Refilter(SpecialCycle(currentFilters, clickedCategory), currentLanguage)
  /\ UNCHANGED <<disabledPokemon, chosenPokemonId, currentLanguage, typeCountState>>

\* A cycle whose second step goes back to unselected.
ColorCycle_NoExclude(f, clickedColor) ==
  LET isActive == clickedColor \in f.colors
  IN IF ~isActive
     THEN [f EXCEPT !.colors = @ \cup {clickedColor}]
     ELSE [f EXCEPT !.colors = @ \ {clickedColor}]

ColorCycle(f, clickedColor) ==
  LET isActive == clickedColor \in f.colors
      isNot == clickedColor \in f.notColors
  IN IF ~isActive /\ ~isNot
     THEN [f EXCEPT !.colors = @ \cup {clickedColor}]
     ELSE IF isActive
     THEN [f EXCEPT !.colors = @ \ {clickedColor}, !.notColors = @ \cup {clickedColor}]
     ELSE [f EXCEPT !.notColors = @ \ {clickedColor}]

\* A color button.
ColorClick(clickedColor) ==
  /\ build = "app"
  /\ UserStep("ColorClick")
  /\ Refilter(ColorCycle(currentFilters, clickedColor), currentLanguage)
  /\ UNCHANGED <<disabledPokemon, chosenPokemonId, currentLanguage, typeCountState>>

\* A language option: the grid is rendered again, filterPokemon is not called.
LanguageSelect(selectedLang) ==
  /\ build = "app"
  /\ UserStep("LanguageSelect")
  /\ currentLanguage' = selectedLang
  /\ UNCHANGED <<displayedPokemon, disabledPokemon, chosenPokemonId, currentFilters,
                 typeCountState>>

DisplayedIds == {displayedPokemon[i].id : i \in 1..Len(displayedPokemon)}

\* A togglePokemon without its delete branch.
Toggled_OnlyDisables(disabled, pokemonId) == disabled \cup {pokemonId}

\* togglePokemon's effect on disabledPokemon.
Toggled(disabled, pokemonId) ==
  IF pokemonId \in disabled
  THEN disabled \ {pokemonId}
  ELSE disabled \cup {pokemonId}

\* togglePokemon, from a click on a displayed card.
TogglePokemon(pokemonId) ==
  /\ pokemonId \in DisplayedIds
  /\ UserStep("TogglePokemon")
  /\ disabledPokemon' = Toggled(disabledPokemon, pokemonId)
  /\ UNCHANGED <<displayedPokemon, chosenPokemonId, currentLanguage, currentFilters,
                 typeCountState>>

\* A chooseIdentity without its first branch.
Chosen_NeverUnchooses(current, pokemonId) == pokemonId

\* chooseIdentity's effect on chosenPokemonId.
Chosen(current, pokemonId) == IF current = pokemonId THEN NoChoice ELSE pokemonId

\* chooseIdentity, from the star button of a displayed card.  src/app.js
\* renders the star disabled while another Pokemon is chosen.
ChooseIdentity(pokemonId) ==
  /\ pokemonId \in DisplayedIds
  /\ build = "app" => chosenPokemonId \in {NoChoice, pokemonId}
  /\ UserStep("ChooseIdentity")
  /\ chosenPokemonId' = Chosen(chosenPokemonId, pokemonId)
  /\ UNCHANGED <<displayedPokemon, disabledPokemon, currentLanguage, currentFilters,
                 typeCountState>>

\* The clear button src/app.js shows beside the chosen Pokemon.
ClearChosen ==
  /\ build = "app"
  /\ chosenPokemonId # NoChoice
  /\ UserStep("ClearChosen")
  /\ chosenPokemonId' = NoChoice
  /\ UNCHANGED <<displayedPokemon, disabledPokemon, currentLanguage, currentFilters,
                 typeCountState>>

\* A random pick that draws from the whole displayed list.
AvailablePokemon_WithDisabled == displayedPokemon

\* state.displayedPokemon without the disabled ones.
AvailablePokemon ==
  LET Enabled(pokemon) == pokemon.id \notin disabledPokemon
  IN SelectSeq(displayedPokemon, Enabled)

\* A chooseRandomPokemon that, finding no Pokemon available, enables them all.
ChooseRandomPokemon_EnablesAll ==
  /\ build = "app"
  /\ chosenPokemonId = NoChoice
  /\ UserStep("ChooseRandomPokemon")
  /\ IF Len(AvailablePokemon) = 0
     THEN disabledPokemon' = {} /\ UNCHANGED chosenPokemonId
     ELSE /\ \E randomIndex \in 1..Len(AvailablePokemon) :
               chosenPokemonId' = Chosen(chosenPokemonId, AvailablePokemon[randomIndex].id)
          /\ UNCHANGED disabledPokemon
  /\ UNCHANGED <<displayedPokemon, currentLanguage, currentFilters, typeCountState>>

\* chooseRandomPokemon, from the button src/app.js shows while nothing is
\* chosen: any index Math.random can give.
ChooseRandomPokemon ==
  /\ build = "app"
  /\ chosenPokemonId = NoChoice
  /\ UserStep("ChooseRandomPokemon")
  /\ IF Len(AvailablePokemon) = 0
     THEN UNCHANGED chosenPokemonId
     ELSE \E randomIndex \in 1..Len(AvailablePokemon) :
            chosenPokemonId' = Chosen(chosenPokemonId, AvailablePokemon[randomIndex].id)
  /\ UNCHANGED <<displayedPokemon, disabledPokemon, currentLanguage, currentFilters,
                 typeCountState>>

\* A reset that leaves the exclude sets and the name alone.
ResetFilters_KeepExcluded(f) ==
  [f EXCEPT !.generations = <<>>, !.types = {}, !.typeCount = {},
            !.evolutionStages = {}, !.specialCategories = {}, !.colors = {}]

\* resetAllPokemon's filters: every set and the name are cleared; the modes of
\* part_000 stay.
ResetFilters(f) ==
  [f EXCEPT !.generations = <<>>, !.notGenerations = <<>>,
            !.types = {}, !.notTypes = {},
            !.typeCount = {}, !.notTypeCount = {},
            !.evolutionStages = {}, !.notEvolutionStages = {},
            !.specialCategories = {}, !.notSpecialCategories = {},
            !.colors = {}, !.notColors = {},
            !.name = <<>>]

\* resetAllPokemon.  The type-count toggle's closure variable is out of its
\* reach.
ResetAllPokemon ==
  /\ UserStep("ResetAllPokemon")
  /\ disabledPokemon' = {}
  /\ chosenPokemonId' = NoChoice
  /\ Refilter(ResetFilters(currentFilters), currentLanguage)
  /\ UNCHANGED <<currentLanguage, typeCountState>>

NextSession ==
  \/ \E value \in NameQueries : NameInput(value)
  \/ \E genNumber \in GenerationButtons : GenerationClick(genNumber)
  \/ GenerationAll
  \/ GenModeToggle
  \/ TypeModeToggle
  \/ \E clickedType \in TypeButtons : TypeClick(clickedType)
  \/ TypeAll
  \/ TypeCountToggle
  \/ \E stageNumber \in EvolutionButtons : EvolutionClick(stageNumber)
  \/ EvolutionAll
  \/ \E clickedCategory \in SpecialButtons : SpecialClick(clickedCategory)
  \/ \E clickedColor \in ColorButtons : ColorClick(clickedColor)
  \/ \E selectedLang \in LanguageOptions : LanguageSelect(selectedLang)
  \/ \E pokemonId \in DisplayedIds : TogglePokemon(pokemonId)
  \/ \E pokemonId \in DisplayedIds : ChooseIdentity(pokemonId)
  \/ ClearChosen
  \/ ChooseRandomPokemon
  \/ ResetAllPokemon

\* ===== THE SESSION'S START: init() has run with no request failing =====
\* state.generationMap once the generations have answered in the order 1, 2, ...
RECURSIVE GenerationsLoaded(_)
GenerationsLoaded(i) ==
  IF i = 0 THEN <<>>
  ELSE [s \in GenerationSpecies(i) |-> i] @@ GenerationsLoaded(i - 1)

\* A call of fetchPokemonDetails all of whose requests answered.
CompletedCall(data) ==
  IF build = "app"
  THEN LET speciesData == SpeciesData(data.species)
           c == WithSpecies(NewCall("species"), speciesData)
       IN IF speciesData.evolves_from_species # "none"
          THEN Returned(data, [c EXCEPT !.evolutionStage =
                 StageFromPrevious(SpeciesData(speciesData.evolves_from_species))])
          ELSE Returned(data, c)
  ELSE Returned(data, NewCall("detail"))

InitSession ==
  /\ build \in Builds
  /\ pc = "loaded"
  /\ generationFetch = [i \in 1..NumGenerations |-> "ok"]
  /\ generationMap = GenerationsLoaded(NumGenerations)
  /\ listFetch = "ok"
  /\ batches = CreateBatches(FilteredList(PokemonList))
  /\ chain = [b \in 1..Len(batches) |->
                [k \in 1..Len(batches[b]) |-> CompletedCall(DataOf(b, k))]]
  /\ batchIndex = Len(batches) - 1
  /\ allPokemon = SortById(Flatten([b \in 1..Len(batches) |-> BatchResults(b)]))
  /\ progress = 100
  /\ loadingText = "Loading complete!"
  /\ loadingHidden = TRUE
  /\ listeners = TRUE
  /\ displayedPokemon = allPokemon
  /\ disabledPokemon = {}
  /\ chosenPokemonId = NoChoice
  /\ currentLanguage \in (IF build = "app" THEN LanguageOptions ELSE {"en"})
  /\ currentFilters = InitialFilters
  /\ typeCountState = "both"
  /\ ops = 0
  /\ lastOp = "none"

NextIngest ==
  \/ StartInit
  \/ \E i \in 1..NumGenerations : GenerationLoaded(i)
  \/ \E i \in 1..NumGenerations : GenerationFailed(i)
  \/ GenerationsSettled
  \/ ListLoaded
  \/ ListFailed
  \/ \E b \in 1..Len(batches) : \E k \in 1..Len(batches[b]) : DetailLoaded(b, k)
  \/ \E b \in 1..Len(batches) : \E k \in 1..Len(batches[b]) : DetailFailed(b, k)
  \/ \E b \in 1..Len(batches) : \E k \in 1..Len(batches[b]) : SpeciesLoaded(b, k)
  \/ \E b \in 1..Len(batches) : \E k \in 1..Len(batches[b]) : SpeciesFailed(b, k)
  \/ \E b \in 1..Len(batches) : \E k \in 1..Len(batches[b]) : PreviousLoaded(b, k)
  \/ \E b \in 1..Len(batches) : \E k \in 1..Len(batches[b]) : PreviousFailed(b, k)
  \/ BatchSettled

SpecIngest == Init /\ [][NextIngest]_vars

\* The run of init() when every request that was issued is answered or fails
\* in the end, and the event loop runs every continuation whose await has
\* resolved: as long as a step of the run is possible, one is taken.
SpecIngestFair == Init /\ [][NextIngest]_vars /\ WF_vars(NextIngest)

SpecSession == InitSession /\ [][NextSession]_vars

\* ===== PART_000 WITH THE GENERATION MODE SWITCHED TO MULTIPLE =====
\* part_000 starts in single mode; one click on the mode toggle, which changes
\* nothing else, leaves it in multiple mode with nothing selected.  The
\* session below starts there, so that its bound leaves room for two
\* selections and the switch back.
InitGenerationMode ==
  /\ build = "part_000"
  /\ pc = "loaded"
  /\ generationFetch = [i \in 1..NumGenerations |-> "ok"]
  /\ generationMap = GenerationsLoaded(NumGenerations)
  /\ listFetch = "ok"
  /\ batches = CreateBatches(FilteredList(PokemonList))
  /\ chain = [b \in 1..Len(batches) |->
                [k \in 1..Len(batches[b]) |-> CompletedCall(DataOf(b, k))]]
  /\ batchIndex = Len(batches) - 1
  /\ allPokemon = SortById(Flatten([b \in 1..Len(batches) |-> BatchResults(b)]))
  /\ progress = 100
  /\ loadingText = "Loading complete!"
  /\ loadingHidden = TRUE
  /\ listeners = TRUE
  /\ displayedPokemon = allPokemon
  /\ disabledPokemon = {}
  /\ chosenPokemonId = NoChoice
  /\ currentLanguage = "en"
  /\ currentFilters = [InitialFilters EXCEPT !.generationMode = "multiple"]
  /\ typeCountState = "both"
  /\ ops = 0
  /\ lastOp = "none"

\* The handlers of the two facets that have a mode.
NextGenerationMode ==
  \/ \E genNumber \in GenerationButtons : GenerationClick(genNumber)
  \/ GenModeToggle
  \/ \E clickedType \in TypeButtons : TypeClick(clickedType)
  \/ TypeModeToggle

SpecGenerationMode == InitGenerationMode /\ [][NextGenerationMode]_vars

\* ===== THE PAGE FROM DOMContentLoaded ON =====
\* init() and the handlers together: a handler runs whenever its listener is
\* installed, whatever init() is doing.  The generation and list requests
\* answer or the list request fails, and a call's detail request answers or
\* fails, so that init() ends with every catalog from the empty to the full
\* one; the handlers are those of a type button, the name field, a card, a
\* star, the random button and the reset button.
NextPage ==
  \/ StartInit
  \/ \E i \in 1..NumGenerations : GenerationLoaded(i)
  \/ GenerationsSettled
  \/ ListLoaded
  \/ ListFailed
  \/ \E b \in 1..Len(batches) : \E k \in 1..Len(batches[b]) : DetailLoaded(b, k)
  \/ \E b \in 1..Len(batches) : \E k \in 1..Len(batches[b]) : DetailFailed(b, k)
  \/ \E b \in 1..Len(batches) : \E k \in 1..Len(batches[b]) : SpeciesLoaded(b, k)
  \/ \E b \in 1..Len(batches) : \E k \in 1..Len(batches[b]) : PreviousLoaded(b, k)
  \/ BatchSettled
  \/ \E clickedType \in TypeButtons : TypeClick(clickedType)
  \/ \E value \in NameQueries : NameInput(value)
  \/ \E pokemonId \in DisplayedIds : TogglePokemon(pokemonId)
  \/ \E pokemonId \in DisplayedIds : ChooseIdentity(pokemonId)
  \/ ChooseRandomPokemon
  \/ ResetAllPokemon

SpecPage == Init /\ [][NextPage]_vars

\* ===== CLAIMS =====
Calls == UNION {{<<b, k>> : k \in 1..Len(chain[b])} : b \in 1..Len(chain)}

Call(bk) == chain[bk[1]][bk[2]]

CallData(bk) == PokemonData(batches[bk[1]][bk[2]].dataId)

\* The calls of the batches whose results have been pushed to allPokemon.
PushedCalls == {bk \in Calls : bk[1] <= batchIndex \/ pc = "loaded"}

CatalogIds == {allPokemon[i].id : i \in 1..Len(allPokemon)}

\* C1: whatever toggles, "all" buttons, mode switches and resets have run, no
\* value is both in the include set and in the exclude set of a facet.
C1_IncludeExcludeDisjoint ==
  /\ \A g \in GenerationButtons :
       ~(Has(currentFilters.generations, g) /\ Has(currentFilters.notGenerations, g))
  /\ currentFilters.types \cap currentFilters.notTypes = {}
  /\ currentFilters.typeCount \cap currentFilters.notTypeCount = {}
  /\ currentFilters.evolutionStages \cap currentFilters.notEvolutionStages = {}
  /\ currentFilters.specialCategories \cap currentFilters.notSpecialCategories = {}
  /\ currentFilters.colors \cap currentFilters.notColors = {}

\* One facet holds an included and an excluded value at once.
C1_Witness ==
  /\ currentFilters.types # {}
  /\ currentFilters.notTypes # {}

\* C2: the batches run one at a time in list order: a call of a later batch
\* has started only when every call of every earlier batch has returned.
C2_BatchesOneAtATime ==
  /\ \A bk \in Calls : Call(bk).pc # "idle" => bk[1] <= batchIndex + 1
  /\ \A bk1 \in Calls : \A bk2 \in Calls :
       (bk1[1] < bk2[1] /\ Call(bk2).pc # "idle") => Call(bk1).pc = "done"

\* The second batch is waiting on a previous-species request after a first
\* batch in which a request failed.
C2_Witness ==
  /\ pc = "batch"
  /\ batchIndex = 1
  /\ \E bk \in Calls : bk[1] = 2 /\ Call(bk).pc = "prev"
  /\ \E bk \in Calls : bk[1] = 1 /\ Call(bk).logged # "none"

\* C3: the detail, species and previous-species requests in flight are never
\* more than BATCH_SIZE.
C3_InFlightBounded ==
  Cardinality({bk \in Calls : Call(bk).pc \in {"detail", "species", "prev"}}) <= BATCH_SIZE

\* A later batch has BATCH_SIZE requests in flight, one for a previous species.
C3_Witness ==
  /\ batchIndex >= 1
  /\ Cardinality({bk \in Calls : Call(bk).pc \in {"detail", "species", "prev"}}) = BATCH_SIZE
  /\ \E bk \in Calls : Call(bk).pc = "prev"

\* C4 as claimed: a call that logged a failure of any of its requests
\* returned no record.
C4_AnyFailureDrops ==
  \A bk \in Calls : (Call(bk).pc = "done" /\ Call(bk).logged # "none") => Call(bk).result = <<>>

\* C4 as amended: a call returns no record exactly when its detail request
\* failed.  After a species or previous-species failure the record is there,
\* with stage 1 and, after a species failure, with no names, flags or color.
\* The catalog holds the records of exactly the pushed calls whose detail
\* request answered, whatever their siblings did.
C4_OnlyDetailFailureDrops ==
  /\ \A bk \in Calls : Call(bk).pc = "done" =>
       /\ (Call(bk).result = <<>>) <=> (Call(bk).logged = "detail")
       /\ Call(bk).result # <<>> => Call(bk).result[1].id = CallData(bk).id
       /\ (build = "app" /\ Call(bk).logged \in {"species", "prev"}) =>
            Call(bk).result[1].evolutionStage = 1
       /\ (build = "app" /\ Call(bk).logged = "species") =>
            /\ Call(bk).result[1].names = <<>>
            /\ ~Call(bk).result[1].isBaby
            /\ ~Call(bk).result[1].isLegendary
            /\ ~Call(bk).result[1].isMythical
            /\ Call(bk).result[1].color = "none"
  /\ CatalogIds = {CallData(bk).id : bk \in {x \in PushedCalls : Call(x).logged # "detail"}}

\* In one pushed batch a species request failed and a sibling's requests all
\* answered, and elsewhere a detail request failed.
C4_Witness ==
  /\ pc = "loaded"
  /\ \E bk1 \in Calls : \E bk2 \in Calls :
       /\ bk1[1] = bk2[1]
       /\ Call(bk1).logged = "species"
       /\ Call(bk2).logged = "none"
       /\ {CallData(bk1).id, CallData(bk2).id} \subseteq CatalogIds
  /\ \E bk \in Calls : Call(bk).logged = "detail"

\* The fields of a record of the running build.
RecordFields ==
  IF build = "app"
  THEN {"id", "name", "names", "types", "generation", "evolutionStage",
        "isBaby", "isLegendary", "isMythical", "color"}
  ELSE {"id", "name", "types", "generation"}

BatchCalls(b) == {bk \in Calls : bk[1] = b}

\* C5: a pushed batch of n calls of which k failed their detail request, every
\* other request answering, has n - k records in the catalog, none with the
\* id of a failed call, each the complete record; and the catalog holds
\* nothing else in a failed call's place.
C5_DetailFailuresLeaveNoRecord ==
  /\ \A b \in 1..Len(chain) :
       (BatchCalls(b) \subseteq PushedCalls
          /\ \A bk \in BatchCalls(b) : Call(bk).logged \in {"none", "detail"}) =>
         LET failed == {bk \in BatchCalls(b) : Call(bk).logged = "detail"}
             ofBatch == {i \in 1..Len(allPokemon) :
                           allPokemon[i].id \in {CallData(bk).id : bk \in BatchCalls(b)}}
         IN /\ Cardinality(ofBatch) = Cardinality(BatchCalls(b)) - Cardinality(failed)
            /\ \A bk \in failed : CallData(bk).id \notin CatalogIds
            /\ \A i \in ofBatch :
                 \E bk \in BatchCalls(b) \ failed :
                   allPokemon[i] = CompletedCall(CallData(bk)).result[1]
  /\ \A i \in 1..Len(allPokemon) : DOMAIN allPokemon[i] = RecordFields
  /\ Len(allPokemon) = Cardinality({bk \in PushedCalls : Call(bk).logged # "detail"})

\* A full batch was pushed with one detail failure and its other call complete.
C5_Witness ==
  \E b \in 1..Len(chain) :
    /\ BatchCalls(b) \subseteq PushedCalls
    /\ Cardinality(BatchCalls(b)) = BATCH_SIZE
    /\ Cardinality({bk \in BatchCalls(b) : Call(bk).logged = "detail"}) = 1
    /\ \A bk \in BatchCalls(b) : Call(bk).logged \in {"none", "detail"}
    /\ \E bk \in BatchCalls(b) : CallData(bk).id \in CatalogIds

\* C6: once the list request has failed, init() stands at its catch: no
\* detail request was issued, the catalog is empty, the error text is shown,
\* the loading screen stays and the listeners are never installed.
C6_ListFailureIsFatal ==
  listFetch = "failed" =>
    /\ pc = "failed"
    /\ chain = <<>>
    /\ allPokemon = <<>>
    /\ displayedPokemon = <<>>
    /\ loadingText = "Error loading Pokemon. Please refresh."
    /\ ~loadingHidden
    /\ ~listeners

\* The list request failed after a generation had answered.
C6_Witness ==
  /\ listFetch = "failed"
  /\ generationMap # <<>>

\* C7: failed generation requests leave init() running: only a failed list
\* request ends it; the index holds exactly the species of the generations
\* that answered; a record whose species is not in the index has generation 1
\* and every record's generation is one of the generations fetched.
C7_GenerationFailuresTolerated ==
  /\ pc = "failed" => listFetch = "failed"
  /\ DOMAIN generationMap =
       UNION {GenerationSpecies(i) : i \in {j \in 1..NumGenerations : generationFetch[j] = "ok"}}
  /\ \A i \in 1..Len(allPokemon) :
       /\ allPokemon[i].generation \in 1..NumGenerations
       /\ PokemonData(allPokemon[i].id).species \notin DOMAIN generationMap =>
            allPokemon[i].generation = 1

\* Every generation request failed, and init() loaded every kept reference,
\* each with generation 1.
C7_Witness ==
  /\ pc = "loaded"
  /\ \A i \in 1..NumGenerations : generationFetch[i] = "failed"
  /\ Len(allPokemon) = Len(Flatten(batches))
  /\ Len(allPokemon) > 0
  /\ \A i \in 1..Len(allPokemon) : allPokemon[i].generation = 1

\* C8: the list request is issued only when every generation request has
\* settled, and a detail request only when the list has answered.
C8_PhasesInOrder ==
  /\ listFetch # "idle" => \A i \in 1..NumGenerations : generationFetch[i] \in {"ok", "failed"}
  /\ \A bk \in Calls : Call(bk).pc # "idle" => listFetch = "ok"

\* A detail request is in flight after one generation failed and one answered.
C8_Witness ==
  /\ \E bk \in Calls : Call(bk).pc = "detail"
  /\ \E i \in 1..NumGenerations : generationFetch[i] = "failed"
  /\ \E i \in 1..NumGenerations : generationFetch[i] = "ok"

\* C9: when init() has loaded, allPokemon is ascending by id and
\* displayedPokemon is allPokemon.
C9_SortedAndDisplayed ==
  pc = "loaded" =>
    /\ \A i \in 1..Len(allPokemon) : \A j \in 1..Len(allPokemon) :
         i < j => allPokemon[i].id < allPokemon[j].id
    /\ displayedPokemon = allPokemon

\* init() loaded every kept reference, which the list gave out of id order.
C9_Witness ==
  /\ pc = "loaded"
  /\ Len(allPokemon) = Len(Flatten(batches))
  /\ Len(allPokemon) >= 3
  /\ batches[1][1].dataId > batches[1][2].dataId

\* The stage the species chain of a record gives: 1 with no previous species,
\* 2 when the previous species has none, 3 otherwise.
StageOfChain(species) ==
  LET previous == SpeciesData(species).evolves_from_species
  IN IF previous = "none" THEN 1
     ELSE IF SpeciesData(previous).evolves_from_species = "none" THEN 2
     ELSE 3

\* C10: every record of src/app.js whose species answered carries the stage
\* its species chain gives.
C10_StageFollowsChain ==
  build = "app" =>
    \A bk \in Calls :
      (Call(bk).pc = "done" /\ Call(bk).result # <<>> /\ Call(bk).logged # "species") =>
        Call(bk).result[1].evolutionStage = StageOfChain(CallData(bk).species)

\* ===== CLAIMS ON THE FILTER BUTTONS =====
\* Where a value stands in a facet's pair of sets.
TriState(included, excluded) ==
  IF included THEN "included" ELSE IF excluded THEN "excluded" ELSE "unselected"

\* One step along unselected -> included -> excluded -> unselected.
NextTriState(t) ==
  CASE t = "unselected" -> "included"
    [] t = "included" -> "excluded"
    [] OTHER -> "unselected"

GenerationState(f, g) == TriState(Has(f.generations, g), Has(f.notGenerations, g))

TypeState(f, t) == TriState(t \in f.types, t \in f.notTypes)

TypeCountValueState(f, v) == TriState(v \in f.typeCount, v \in f.notTypeCount)

EvolutionState(f, n) == TriState(n \in f.evolutionStages, n \in f.notEvolutionStages)

SpecialState(f, c) == TriState(c \in f.specialCategories, c \in f.notSpecialCategories)

ColorState(f, c) == TriState(c \in f.colors, c \in f.notColors)

\* A click on a value button of the generation, type, evolution, special or
\* color facet moves the clicked value one step along the cycle.
ValueButtonsCycle ==
  /\ \A g \in GenerationButtons :
       GenerationClick(g) =>
         GenerationState(currentFilters', g) = NextTriState(GenerationState(currentFilters, g))
  /\ \A t \in TypeButtons :
       TypeClick(t) => TypeState(currentFilters', t) = NextTriState(TypeState(currentFilters, t))
  /\ \A n \in EvolutionButtons :
       EvolutionClick(n) =>
         EvolutionState(currentFilters', n) = NextTriState(EvolutionState(currentFilters, n))
  /\ \A c \in SpecialButtons :
       SpecialClick(c) =>
         SpecialState(currentFilters', c) = NextTriState(SpecialState(currentFilters, c))
  /\ \A c \in ColorButtons :
       ColorClick(c) => ColorState(currentFilters', c) = NextTriState(ColorState(currentFilters, c))

\* C11 as stated: every toggle of every facet, the type-count toggle included,
\* moves a value of the facet one step along unselected -> included ->
\* excluded -> unselected.
C11_EveryToggleCycles ==
  [][/\ ValueButtonsCycle
     /\ TypeCountToggle =>
          \E v \in {"single", "dual"} :
            TypeCountValueState(currentFilters', v) =
              NextTriState(TypeCountValueState(currentFilters, v))]_vars

\* C11, amended: a click on a value button of the generation, type, evolution,
\* special or color facet moves that value one step along the cycle; a click
\* on the type-count toggle moves its position both -> single -> dual -> both,
\* makes the type-count include set the new position's value (empty for both)
\* and leaves the type-count exclude set empty.
C11_ValueTogglesCycle ==
  [][/\ ValueButtonsCycle
     /\ TypeCountToggle =>
          /\ typeCountState' = CASE typeCountState = "both" -> "single"
                                  [] typeCountState = "single" -> "dual"
                                  [] OTHER -> "both"
          /\ currentFilters'.typeCount =
               IF typeCountState' = "both" THEN {} ELSE {typeCountState'}
          /\ currentFilters'.notTypeCount = {}]_vars

\* A second click has just taken a color to excluded while the type-count
\* toggle stands on single.
C11_Witness ==
  /\ lastOp = "ColorClick"
  /\ currentFilters.notColors # {}
  /\ currentFilters.typeCount = {"single"}

\* The filters three clicks in a row on the type-count toggle leave, the
\* toggle standing on st before the first.
TypeCountClickedThrice(f, st) ==
  LET one == TypeCountCycle(f, st)
      two == TypeCountCycle(one.filters, one.state)
  IN TypeCountCycle(two.filters, two.state).filters

\* Three clicks in a row on one value button of a facet that has nothing
\* selected leave the filters as they were.
ValueButtonsReturn ==
  /\ (currentFilters.generations = <<>> /\ currentFilters.notGenerations = <<>>) =>
       \A g \in GenerationButtons :
         GenerationClicked(GenerationClicked(GenerationClicked(currentFilters, g), g), g)
           = currentFilters
  /\ (currentFilters.types = {} /\ currentFilters.notTypes = {}) =>
       \A t \in TypeButtons :
         TypeCycle(TypeCycle(TypeCycle(currentFilters, t), t), t) = currentFilters
  /\ (currentFilters.evolutionStages = {} /\ currentFilters.notEvolutionStages = {}) =>
       \A n \in EvolutionButtons :
         EvolutionCycle(EvolutionCycle(EvolutionCycle(currentFilters, n), n), n)
           = currentFilters
  /\ (currentFilters.specialCategories = {} /\ currentFilters.notSpecialCategories = {}) =>
       \A c \in SpecialButtons :
         SpecialCycle(SpecialCycle(SpecialCycle(currentFilters, c), c), c) = currentFilters
  /\ (currentFilters.colors = {} /\ currentFilters.notColors = {}) =>
       \A c \in ColorButtons :
         ColorCycle(ColorCycle(ColorCycle(currentFilters, c), c), c) = currentFilters

\* C12: whenever a facet has nothing selected, three toggles in a row of one
\* of its values (for the type count: of its toggle) leave the facet's
\* include and exclude sets as they were, the value unselected again; in
\* single and in multiple generation mode.
C12_ThreeTogglesReturn ==
  /\ ValueButtonsReturn
  /\ (build = "app" /\ currentFilters.typeCount = {} /\ currentFilters.notTypeCount = {}) =>
       TypeCountClickedThrice(currentFilters, typeCountState) = currentFilters

\* The handler's step leaves every field of the filters outside changed as
\* it was.
FiltersKeptOutside(changed) ==
  \A field \in DOMAIN currentFilters \ changed :
    currentFilters'[field] = currentFilters[field]

\* C13: the "all" button of the generation, type or evolution stage facet
\* leaves that facet's include set and exclude set empty whatever they held,
\* and every other facet's sets, the modes and the name as they were.
C13_AllClearsOnlyItsFacet ==
  [][/\ GenerationAll =>
          /\ currentFilters'.generations = <<>>
          /\ currentFilters'.notGenerations = <<>>
          /\ FiltersKeptOutside({"generations", "notGenerations"})
     /\ TypeAll =>
          /\ currentFilters'.types = {}
          /\ currentFilters'.notTypes = {}
          /\ FiltersKeptOutside({"types", "notTypes"})
     /\ EvolutionAll =>
          /\ currentFilters'.evolutionStages = {}
          /\ currentFilters'.notEvolutionStages = {}
          /\ FiltersKeptOutside({"evolutionStages", "notEvolutionStages"})]_vars

\* The generation "all" button has run while a type stays excluded.
C13_Witness ==
  /\ lastOp = "GenerationAll"
  /\ currentFilters.generations = <<>>
  /\ currentFilters.notGenerations = <<>>
  /\ currentFilters.notTypes # {}

\* C14: when resetAllPokemon has just run, from whatever state, every include
\* and exclude set is empty, the name is empty, no Pokemon is disabled, none
\* is chosen, and the displayed list is the whole catalog in catalog order.
C14_ResetClearsEverything ==
  lastOp = "ResetAllPokemon" =>
    /\ currentFilters.generations = <<>> /\ currentFilters.notGenerations = <<>>
    /\ currentFilters.types = {} /\ currentFilters.notTypes = {}
    /\ currentFilters.typeCount = {} /\ currentFilters.notTypeCount = {}
    /\ currentFilters.evolutionStages = {} /\ currentFilters.notEvolutionStages = {}
    /\ currentFilters.specialCategories = {} /\ currentFilters.notSpecialCategories = {}
    /\ currentFilters.colors = {} /\ currentFilters.notColors = {}
    /\ currentFilters.name = <<>>
    /\ disabledPokemon = {}
    /\ chosenPokemonId = NoChoice
    /\ displayedPokemon = allPokemon

\* resetAllPokemon has run after two clicks on the type-count toggle had
\* narrowed the list to the dual-type Pokemon.
C14_Witness ==
  /\ lastOp = "ResetAllPokemon"
  /\ typeCountState = "dual"
  /\ Len(displayedPokemon) = Len(allPokemon)

\* The ids of a list of Pokemon, in its order.
Ids(list) == [i \in 1..Len(list) |-> list[i].id]

\* C15: from filters with nothing selected, a click on generation button g
\* leaves displayed exactly the catalog's Pokemon of generation g, in catalog
\* order; the next click on the same button leaves exactly those of another
\* generation.
C15_GenerationToggleScenario ==
  [][\A g \in GenerationButtons :
       GenerationClick(g) =>
         /\ currentFilters = ResetFilters(currentFilters) =>
              displayedPokemon' = SelectSeq(allPokemon, LAMBDA p : p.generation = g)
         /\ currentFilters = [ResetFilters(currentFilters) EXCEPT !.generations = <<g>>] =>
              displayedPokemon' = SelectSeq(allPokemon, LAMBDA p : p.generation # g)]_vars

\* The second click on generation 1 has left the Pokemon 3 and 4 of the
\* catalog 1..5, whose generations are 1, 1, 2, 3, 1.
C15_Witness ==
  /\ lastOp = "GenerationClick"
  /\ currentFilters = [ResetFilters(currentFilters) EXCEPT !.notGenerations = <<1>>]
  /\ Ids(allPokemon) = <<1, 2, 3, 4, 5>>
  /\ Ids(displayedPokemon) = <<3, 4>>

\* The handlers that end in a call of filterPokemon.
FilteringHandlers ==
  {"NameInput", "GenerationClick", "GenerationAll", "GenModeToggle", "TypeModeToggle",
   "TypeClick", "TypeAll", "TypeCountToggle", "EvolutionClick", "EvolutionAll",
   "SpecialClick", "ColorClick", "ResetAllPokemon"}

\* The catalog a run leaves in which every species request failed.
UnenrichedCatalog ==
  [i \in 1..Len(allPokemon) |->
     PokemonRecord(PokemonData(allPokemon[i].id), NewCall("detail"))]

PassesEveryTest(p, f, language) ==
  /\ f.name # <<>> =>
       IF build = "app" THEN NameMatches(p, f.name, language) ELSE NameMatchesOld(p, f.name)
  /\ f.generations # <<>> => Has(f.generations, p.generation)
  /\ ~Has(f.notGenerations, p.generation)
  /\ f.types # {} => TypesMatch(p, f.types, f.typeMode)
  /\ \A i \in 1..Len(p.types) : p.types[i] \notin f.notTypes
  /\ build = "app" =>
       /\ f.typeCount # {} =>
            \E n \in f.typeCount : Len(p.types) = (IF n = "single" THEN 1 ELSE 2)
       /\ \A n \in f.notTypeCount : Len(p.types) # (IF n = "single" THEN 1 ELSE 2)
       /\ f.evolutionStages # {} => p.evolutionStage \in f.evolutionStages
       /\ p.evolutionStage \notin f.notEvolutionStages
       /\ f.specialCategories # {} =>
            \/ "baby" \in f.specialCategories /\ p.isBaby
            \/ "legendary" \in f.specialCategories /\ p.isLegendary
            \/ "mythical" \in f.specialCategories /\ p.isMythical
       /\ ~("baby" \in f.notSpecialCategories /\ p.isBaby)
       /\ ~("legendary" \in f.notSpecialCategories /\ p.isLegendary)
       /\ ~("mythical" \in f.notSpecialCategories /\ p.isMythical)
       /\ f.colors # {} => p.color \in f.colors
       /\ p.color \notin f.notColors

\* The filters of filterPokemon applied last to first.
FilterPokemonBackwards(all, f, language) ==
  LET Pokemon == {all[i] : i \in 1..Len(all)}
      b13 == FilterIf(build = "app" /\ f.notColors # {}, all,
               [p \in Pokemon |-> p.color = "none" \/ p.color \notin f.notColors])
      b12 == FilterIf(build = "app" /\ f.colors # {}, b13,
               [p \in Pokemon |-> p.color # "none" /\ p.color \in f.colors])
      b11 == FilterIf(build = "app" /\ f.notSpecialCategories # {}, b12,
               [p \in Pokemon |-> ~SpecialMatches(p, f.notSpecialCategories)])
      b10 == FilterIf(build = "app" /\ f.specialCategories # {}, b11,
               [p \in Pokemon |-> SpecialMatches(p, f.specialCategories)])
      b9 == FilterIf(build = "app" /\ f.notEvolutionStages # {}, b10,
               [p \in Pokemon |-> p.evolutionStage \notin f.notEvolutionStages])
      b8 == FilterIf(build = "app" /\ f.evolutionStages # {}, b9,
               [p \in Pokemon |-> p.evolutionStage \in f.evolutionStages])
      b7 == FilterIf(build = "app" /\ f.notTypeCount # {}, b8,
               [p \in Pokemon |-> ~TypeCountMatches(p, f.notTypeCount)])
      b6 == FilterIf(build = "app" /\ f.typeCount # {}, b7,
               [p \in Pokemon |-> TypeCountMatches(p, f.typeCount)])
      b5 == FilterIf(f.notTypes # {}, b6,
               [p \in Pokemon |-> ~(\E i \in 1..Len(p.types) : p.types[i] \in f.notTypes)])
      b4 == FilterIf(f.types # {}, b5,
               [p \in Pokemon |-> TypesMatch(p, f.types, f.typeMode)])
      b3 == FilterIf(f.notGenerations # <<>>, b4,
               [p \in Pokemon |-> ~Has(f.notGenerations, p.generation)])
      b2 == FilterIf(f.generations # <<>>, b3,
               [p \in Pokemon |-> Has(f.generations, p.generation)])
  IN FilterIf(f.name # <<>>, b2,
       [p \in Pokemon |->
          IF build = "app" THEN NameMatches(p, f.name, language)
          ELSE NameMatchesOld(p, f.name)])

\* C17: when a handler has called filterPokemon, the displayed list is exactly
\* the catalog's Pokemon, in catalog order and each once, that pass the name
\* test and every facet's inclusion and exclusion test; applying the filters
\* in the opposite order gives the same list.
C17_DisplayedIsConjunction ==
  lastOp \in FilteringHandlers =>
    /\ displayedPokemon =
         SelectSeq(allPokemon, LAMBDA p : PassesEveryTest(p, currentFilters, currentLanguage))
    /\ \A i \in 1..Len(displayedPokemon) : \A j \in 1..Len(displayedPokemon) :
         i < j => displayedPokemon[i].id < displayedPokemon[j].id
    /\ displayedPokemon = FilterPokemonBackwards(allPokemon, currentFilters, currentLanguage)

\* A filter call with an included generation and an excluded type has left
\* some but not all of the catalog.
C17_Witness ==
  /\ lastOp \in FilteringHandlers
  /\ currentFilters.generations # <<>>
  /\ currentFilters.notTypes # {}
  /\ Len(displayedPokemon) \in 1..(Len(allPokemon) - 1)

\* What filterPokemon would display for the filters f, as things stand.
Shown(f) == FilterPokemon(allPokemon, f, currentLanguage)

\* The Pokemon of list of whose values (valuesOf[p]) one at least is in
\* included, or all of list when included is empty.
IncludedByAny(list, included, valuesOf) ==
  SelectSeq(list, LAMBDA p : included = {} \/ valuesOf[p] \cap included # {})

\* The catalog's Pokemon, and the values each has in the five facets.
Catalog == {allPokemon[i] : i \in 1..Len(allPokemon)}

GenerationsOf == [p \in Catalog |-> {p.generation}]

TypeCountsOf == [p \in Catalog |-> IF Len(p.types) = 1 THEN {"single"} ELSE {"dual"}]

StagesOf == [p \in Catalog |-> {p.evolutionStage}]

SpecialsOf ==
  [p \in Catalog |->
     (IF p.isBaby THEN {"baby"} ELSE {}) \cup (IF p.isLegendary THEN {"legendary"} ELSE {})
       \cup (IF p.isMythical THEN {"mythical"} ELSE {})]

ColorsOf == [p \in Catalog |-> {p.color}]

\* For the filters f: each non-empty include set of the five facets keeps, of
\* the list the other tests give, the Pokemon that match one of its values at
\* least.
IncludeIsOr(f) ==
  LET shown == Shown(f)
  IN /\ f.generations # <<>> =>
          shown = IncludedByAny(Shown([f EXCEPT !.generations = <<>>]),
                    {f.generations[i] : i \in 1..Len(f.generations)}, GenerationsOf)
     /\ build = "app" =>
          /\ f.typeCount # {} =>
               shown = IncludedByAny(Shown([f EXCEPT !.typeCount = {}]),
                         f.typeCount, TypeCountsOf)
          /\ f.evolutionStages # {} =>
               shown = IncludedByAny(Shown([f EXCEPT !.evolutionStages = {}]),
                         f.evolutionStages, StagesOf)
          /\ f.specialCategories # {} =>
               shown = IncludedByAny(Shown([f EXCEPT !.specialCategories = {}]),
                         f.specialCategories, SpecialsOf)
          /\ f.colors # {} =>
               shown = IncludedByAny(Shown([f EXCEPT !.colors = {}]), f.colors, ColorsOf)

\* The exclude sets, the name and the type include set being empty, the
\* five include sets of f being empty as well lets every Pokemon through.
EmptyIncludeLetsAll(f) ==
  LET others == [ResetFilters(f) EXCEPT !.generations = f.generations,
                                        !.typeCount = f.typeCount,
                                        !.evolutionStages = f.evolutionStages,
                                        !.specialCategories = f.specialCategories,
                                        !.colors = f.colors]
  IN others = ResetFilters(f) => Shown(others) = allPokemon

\* C18: for the generation, type-count, evolution stage, special and color
\* facets an empty include set does not constrain, and a non-empty one passes
\* exactly the Pokemon that match at least one of its values.  Checked on the
\* filters a handler has just filtered with and, early in the session, on
\* these with any include set of a facet put in place of its own.
C18_IncludeIsOr ==
  /\ lastOp \in FilteringHandlers =>
       (IncludeIsOr(currentFilters) /\ EmptyIncludeLetsAll(currentFilters))
  /\ ops <= 1 =>
       /\ EmptyIncludeLetsAll(currentFilters)
       /\ \A g \in GenerationButtons : \A h \in GenerationButtons :
            IncludeIsOr([currentFilters EXCEPT
                           !.generations = IF g = h THEN <<g>> ELSE <<g, h>>])
       /\ build = "app" =>
            /\ \A S \in SUBSET {"single", "dual"} :
                 IncludeIsOr([currentFilters EXCEPT !.typeCount = S])
            /\ \A S \in SUBSET EvolutionButtons :
                 IncludeIsOr([currentFilters EXCEPT !.evolutionStages = S])
            /\ \A S \in SUBSET SpecialButtons :
                 IncludeIsOr([currentFilters EXCEPT !.specialCategories = S])
            /\ \A S \in SUBSET ColorButtons :
                 IncludeIsOr([currentFilters EXCEPT !.colors = S])

\* Two special categories are included: the baby and the two legendary
\* Pokemon are displayed, no Pokemon is both.
C18_Witness ==
  /\ lastOp = "SpecialClick"
  /\ currentFilters.specialCategories = {"baby", "legendary"}
  /\ Ids(displayedPokemon) = <<1, 4, 5>>

\* The Pokemon of list none of whose values (valuesOf[p]) is in excluded.
ExcludedByAny(list, excluded, valuesOf) ==
  SelectSeq(list, LAMBDA p : valuesOf[p] \cap excluded = {})

TypesOf == [p \in Catalog |-> {p.types[i] : i \in 1..Len(p.types)}]

\* For the filters f: each non-empty exclude set keeps, of the list the other
\* tests give, the Pokemon that match none of its values.
ExcludeIsNone(f) ==
  LET shown == Shown(f)
  IN /\ f.notGenerations # <<>> =>
          shown = ExcludedByAny(Shown([f EXCEPT !.notGenerations = <<>>]),
                    {f.notGenerations[i] : i \in 1..Len(f.notGenerations)}, GenerationsOf)
     /\ f.notTypes # {} =>
          shown = ExcludedByAny(Shown([f EXCEPT !.notTypes = {}]), f.notTypes, TypesOf)
     /\ build = "app" =>
          /\ f.notTypeCount # {} =>
               shown = ExcludedByAny(Shown([f EXCEPT !.notTypeCount = {}]),
                         f.notTypeCount, TypeCountsOf)
          /\ f.notEvolutionStages # {} =>
               shown = ExcludedByAny(Shown([f EXCEPT !.notEvolutionStages = {}]),
                         f.notEvolutionStages, StagesOf)
          /\ f.notSpecialCategories # {} =>
               shown = ExcludedByAny(Shown([f EXCEPT !.notSpecialCategories = {}]),
                         f.notSpecialCategories, SpecialsOf)
          /\ f.notColors # {} =>
               shown = ExcludedByAny(Shown([f EXCEPT !.notColors = {}]),
                         f.notColors, ColorsOf)

\* The type modes the script has: OR and AND in part_000, AND in src/app.js.
TypeModes == IF build = "app" THEN {"and"} ELSE {"or", "and"}

\* C19: for every facet a non-empty exclude set passes exactly the Pokemon
\* that match none of its values, a Pokemon of two types going when either is
\* excluded, in the OR and in the AND type mode alike.  Checked on the
\* filters a handler has just filtered with and, early in the session, on
\* these with any exclude set of a facet put in place of its own, in each type mode.
C19_ExcludeIsNoneOf ==
  /\ lastOp \in FilteringHandlers => ExcludeIsNone(currentFilters)
  /\ ops <= 1 =>
       /\ \A g \in GenerationButtons : \A h \in GenerationButtons :
            ExcludeIsNone([currentFilters EXCEPT
                             !.notGenerations = IF g = h THEN <<g>> ELSE <<g, h>>])
       /\ \A S \in SUBSET TypeButtons : \A mode \in TypeModes :
            ExcludeIsNone([currentFilters EXCEPT !.notTypes = S, !.typeMode = mode])
       /\ build = "app" =>
            /\ \A S \in SUBSET {"single", "dual"} :
                 ExcludeIsNone([currentFilters EXCEPT !.notTypeCount = S])
            /\ \A S \in SUBSET EvolutionButtons :
                 ExcludeIsNone([currentFilters EXCEPT !.notEvolutionStages = S])
            /\ \A S \in SUBSET SpecialButtons :
                 ExcludeIsNone([currentFilters EXCEPT !.notSpecialCategories = S])
            /\ \A S \in SUBSET ColorButtons :
                 ExcludeIsNone([currentFilters EXCEPT !.notColors = S])

\* Flying is excluded: of the Pokemon 1..5 with types fire, fire and flying,
\* water, water and flying, flying, the Pokemon 1 and 3 are displayed.
C19_Witness ==
  /\ lastOp = "TypeClick"
  /\ currentFilters.notTypes = {"flying"}
  /\ currentFilters.types = {}
  /\ Ids(displayedPokemon) = <<1, 3>>

\* For the filters f: the include set of types, when not empty, keeps of the
\* list the other tests give the Pokemon with one included type at least in
\* OR mode and with every included type in AND mode; with no type included
\* the mode makes no difference.
TypeModeDecidesInclusion(f) ==
  LET shown == Shown(f)
  IN /\ f.types # {} =>
          shown = SelectSeq(Shown([f EXCEPT !.types = {}]),
                    LAMBDA p : \/ f.typeMode = "or" /\ TypesOf[p] \cap f.types # {}
                               \/ f.typeMode = "and" /\ f.types \subseteq TypesOf[p])
     /\ f.types = {} =>
          \A mode \in TypeModes \ {f.typeMode} : Shown([f EXCEPT !.typeMode = mode]) = shown

\* C20: the type mode decides the inclusion test of the type facet and
\* nothing else: OR passes the Pokemon with at least one included type, AND
\* those with all of them, so that with fire and flying included a Pokemon of
\* type fire alone is displayed in OR mode and not in AND mode.  Checked on
\* the filters a handler has just filtered with and, early in the session, on
\* these with any include set of types in each mode the script has.
C20_TypeModeOrAnd ==
  /\ currentFilters.typeMode \in TypeModes
  /\ lastOp \in FilteringHandlers => TypeModeDecidesInclusion(currentFilters)
  /\ ops <= 1 =>
       \A S \in SUBSET TypeButtons : \A mode \in TypeModes :
         TypeModeDecidesInclusion([currentFilters EXCEPT !.types = S, !.typeMode = mode])
  /\ (currentFilters.types = {"fire", "flying"} /\ lastOp \in FilteringHandlers) =>
       LET others == Shown([currentFilters EXCEPT !.types = {}])
       IN \A i \in 1..Len(others) :
            others[i].types = <<"fire">> =>
              (currentFilters.typeMode = "or" <=> others[i].id \in DisplayedIds)

\* part_000: fire and flying are included and the mode has just been switched
\* to AND, which leaves the one Pokemon that has both types.
C20_Witness ==
  /\ build = "part_000"
  /\ lastOp = "TypeModeToggle"
  /\ currentFilters.typeMode = "and"
  /\ currentFilters.types = {"fire", "flying"}
  /\ Ids(displayedPokemon) = <<2>>

\* ===== CLAIMS ON THE NAME TEST AND THE SELECTION =====
\* The letters a and b are the same up to case.
SameLetter(a, b) ==
  \/ a = b
  \/ \E u \in 1..Len(UpperChars) :
       {a, b} = {UpperChars[u], LowerChars[u]}

\* The query is found in str at some offset, letter by letter, whatever the case.
FoundIgnoringCase(str, query) ==
  \E offset \in 0..(Len(str) - Len(query)) :
    \A j \in 1..Len(query) : SameLetter(str[offset + j], query[j])

\* The name of p in the language where p has one, else p.name.
LocalizedName(p, language) ==
  IF "names" \in DOMAIN p /\ language \in DOMAIN p.names /\ p.names[language] # <<>>
  THEN p.names[language]
  ELSE p.name

\* The queries the test is tried on, among them a query in capitals, queries
\* of two letters and queries no name holds.
NameTestQueries ==
  {<<>>, <<"a">>, <<"A">>, <<"x">>, <<"X">>, <<"y">>, <<"e">>,
   <<"b", "c">>, <<"B", "C">>, <<"a", "b">>, <<"D", "x">>, <<"c", "b">>}

\* With the query alone in the filters and the language given, the filter
\* keeps of the catalog, in order, the Pokemon whose name or whose name in
\* the language holds the query whatever the case.
NameTestIsSubstring(query, language) ==
  FilterPokemon(allPokemon, [InitialFilters EXCEPT !.name = query], language)
    = SelectSeq(allPokemon,
        LAMBDA p : \/ FoundIgnoringCase(p.name, query)
                   \/ FoundIgnoringCase(LocalizedName(p, language), query))

\* C21: a Pokemon passes the name test iff the query is, whatever the case,
\* a substring of its name or of its name in the current language (the name
\* itself where the language has none), and the empty query passes every
\* Pokemon.  Checked on the displayed list a handler has just filtered, and
\* early in the session on a set of queries in every language.
C21_NameTestIsSubstring ==
  /\ lastOp \in FilteringHandlers =>
       /\ \A i \in 1..Len(displayedPokemon) :
            LET p == displayedPokemon[i]
            IN \/ FoundIgnoringCase(p.name, currentFilters.name)
               \/ FoundIgnoringCase(LocalizedName(p, currentLanguage), currentFilters.name)
       /\ displayedPokemon
            = SelectSeq(Shown([currentFilters EXCEPT !.name = <<>>]),
                LAMBDA p : \/ FoundIgnoringCase(p.name, currentFilters.name)
                           \/ FoundIgnoringCase(LocalizedName(p, currentLanguage),
                                                currentFilters.name))
  /\ ops <= 1 =>
       /\ \A query \in NameTestQueries : \A language \in TargetLanguages \cup {"it"} :
            NameTestIsSubstring(query, language)
       /\ \A language \in TargetLanguages :
            FilterPokemon(allPokemon, InitialFilters, language) = allPokemon

\* The language is German and the query "a" has just been typed: the Pokemon
\* 1 ("ab", in German "Xa") passes by both names, 3 ("ca", "Xc") and 4
\* ("da", "dX") by the name alone; 2 and 5 have no a.
C21_Witness ==
  /\ build = "app"
  /\ lastOp = "NameInput"
  /\ currentLanguage = "de"
  /\ currentFilters = [InitialFilters EXCEPT !.name = <<"a">>]
  /\ Ids(displayedPokemon) = <<1, 3, 4>>

\* The sequences that hold every element of S once.
Orderings(S) ==
  {seq \in [1..Cardinality(S) -> S] :
     \A i, j \in 1..Cardinality(S) : seq[i] = seq[j] => i = j}

\* The selections multiple mode can hold: included and excluded generations,
\* each in the order of selection, no generation in both.
GenerationSelections ==
  UNION {Orderings(I) \X Orderings(E) :
           <<I, E>> \in {pair \in (SUBSET GenerationButtons) \X (SUBSET GenerationButtons) :
                           pair[1] \cap pair[2] = {}}}

\* The filters after are what the switch to single mode leaves of before: one
\* selection at most; when before held more than one, the first included
\* generation, still included, else the first excluded one, still excluded;
\* every other field but the mode as it was.
CollapsedFrom(before, after) ==
  /\ after.generationMode = "single"
  /\ Len(after.generations) + Len(after.notGenerations) <= 1
  /\ Len(before.generations) + Len(before.notGenerations) > 1 =>
       IF Len(before.generations) >= 1
       THEN after.generations = <<before.generations[1]>> /\ after.notGenerations = <<>>
       ELSE after.generations = <<>> /\ after.notGenerations = <<before.notGenerations[1]>>
  /\ \A field \in DOMAIN before \ {"generations", "notGenerations", "generationMode"} :
       after[field] = before[field]

\* C22 (part_000): the switch from multiple to single mode with more than one
\* generation selected leaves at most one: the generation included first if
\* any is included, else the one excluded first, in the state it had.
\* Checked on every switch the session makes, and at the session's start on
\* every selection multiple mode can hold.
C22_SwitchToSingleKeepsFirst ==
  /\ [](ops = 0 =>
          \A selection \in GenerationSelections :
            LET before == [currentFilters EXCEPT !.generations = selection[1],
                                                 !.notGenerations = selection[2],
                                                 !.generationMode = "single"]
            IN CollapsedFrom(before, CollapseToSingle(before)))
  /\ [][(GenModeToggle /\ currentFilters.generationMode = "multiple") =>
          CollapsedFrom(currentFilters, currentFilters')]_vars

\* Two generations were included, 2 and then 1, nothing else was done, and
\* the mode has been switched to single: 2 stays included, and the Pokemon 3
\* of generation 2 is displayed.  (In three steps from the start, the steps
\* being clicks on generation and type buttons and mode switches, no other
\* path ends in this state.)
C22_Witness ==
  /\ ops = 3
  /\ lastOp = "GenModeToggle"
  /\ currentFilters = [InitialFilters EXCEPT !.generations = <<2>>]
  /\ Ids(displayedPokemon) = <<3>>

\* The star button of the card of pokemonId can be clicked while current is
\* chosen: src/app.js renders it disabled while another Pokemon is chosen,
\* part_000 never.
StarEnabled(current, pokemonId) ==
  build = "app" => current \in {NoChoice, pokemonId}

\* Every chooseIdentity step un-chooses the chosen Pokemon and chooses any other.
ChooseSetsOrClears ==
  \A pokemonId \in DisplayedIds :
    ChooseIdentity(pokemonId) =>
      /\ chosenPokemonId = pokemonId => chosenPokemonId' = NoChoice
      /\ chosenPokemonId # pokemonId => chosenPokemonId' = pokemonId

\* chosenPokemonId holds nothing or the id of one Pokemon of the catalog.
AtMostOneChosen ==
  chosenPokemonId \in {NoChoice} \cup {allPokemon[i].id : i \in 1..Len(allPokemon)}

\* C23 as stated: chooseIdentity un-chooses the chosen Pokemon and chooses any
\* other over a prior choice, at most one Pokemon is chosen at any time, and
\* two clicks in a row on the same star leave chosen what was chosen before,
\* whatever that was.
C23_ChooseTwiceRestores ==
  /\ [][ChooseSetsOrClears]_vars
  /\ [](/\ AtMostOneChosen
        /\ \A pokemonId \in DisplayedIds :
             StarEnabled(chosenPokemonId, pokemonId) =>
               Chosen(Chosen(chosenPokemonId, pokemonId), pokemonId) = chosenPokemonId)

\* C23, amended: chooseIdentity un-chooses the chosen Pokemon and chooses any
\* other over a prior choice, and at most one Pokemon is chosen at any time;
\* two clicks in a row on the same star leave chosen what was chosen before
\* when that was nothing or the Pokemon of the star, and nothing when it was
\* another Pokemon.
C23_ChooseTwiceRestoresOwn ==
  /\ [][ChooseSetsOrClears]_vars
  /\ [](/\ AtMostOneChosen
        /\ \A pokemonId \in DisplayedIds :
             StarEnabled(chosenPokemonId, pokemonId) =>
               LET once == IF chosenPokemonId = pokemonId THEN NoChoice ELSE pokemonId
                   twice == IF once = pokemonId THEN NoChoice ELSE pokemonId
               IN /\ StarEnabled(once, pokemonId)
                  /\ Chosen(Chosen(chosenPokemonId, pokemonId), pokemonId) = twice
                  /\ chosenPokemonId \in {NoChoice, pokemonId} => twice = chosenPokemonId
                  /\ chosenPokemonId \notin {NoChoice, pokemonId} => twice = NoChoice)

\* part_000: the session's two steps were clicks on a star, and nothing is
\* chosen: the second click was on the star of the Pokemon the first had chosen.
C23_Witness ==
  /\ build = "part_000"
  /\ ops = 2
  /\ lastOp = "ChooseIdentity"
  /\ chosenPokemonId = NoChoice
  /\ disabledPokemon = {}
  /\ currentFilters = InitialFilters

\* The ids chooseRandomPokemon may draw: displayed and not disabled.
EligibleIds == DisplayedIds \ disabledPokemon

\* C24: when some displayed Pokemon is not disabled, chooseRandomPokemon
\* leaves chosen one of the displayed Pokemon that are not disabled, never a
\* disabled or undisplayed one; when there is exactly one such Pokemon, that
\* one.
C24_RandomPicksEligible ==
  [][(ChooseRandomPokemon /\ EligibleIds # {}) =>
       /\ chosenPokemonId' \in EligibleIds
       /\ chosenPokemonId' \notin disabledPokemon
       /\ \E i \in 1..Len(displayedPokemon) : displayedPokemon[i].id = chosenPokemonId'
       /\ \A pokemonId \in EligibleIds :
            EligibleIds = {pokemonId} => chosenPokemonId' = pokemonId]_vars

\* Of the displayed Pokemon all but one are disabled, and chooseRandomPokemon
\* has just chosen that one.
C24_Witness ==
  /\ lastOp = "ChooseRandomPokemon"
  /\ Len(displayedPokemon) >= 2
  /\ disabledPokemon # {}
  /\ EligibleIds = {chosenPokemonId}

\* C25: when no displayed Pokemon is left enabled, nothing being displayed or
\* every displayed Pokemon being disabled, chooseRandomPokemon changes
\* nothing: not the chosen Pokemon, not the disabled ones, not the filters,
\* not the displayed list.
C25_RandomOnNothingIsNoOp ==
  [][(ChooseRandomPokemon /\ EligibleIds = {}) =>
       /\ chosenPokemonId' = chosenPokemonId
       /\ disabledPokemon' = disabledPokemon
       /\ currentFilters' = currentFilters
       /\ displayedPokemon' = displayedPokemon
       /\ typeCountState' = typeCountState
       /\ currentLanguage' = currentLanguage
       /\ allPokemon' = allPokemon]_vars

\* chooseRandomPokemon has just run with every displayed Pokemon disabled:
\* nothing is chosen, and the disabled Pokemon are disabled still.
C25_Witness ==
  /\ lastOp = "ChooseRandomPokemon"
  /\ displayedPokemon # <<>>
  /\ DisplayedIds \subseteq disabledPokemon
  /\ chosenPokemonId = NoChoice

\* chooseRandomPokemon has just run with nothing displayed.
C25_WitnessNothingDisplayed ==
  /\ lastOp = "ChooseRandomPokemon"
  /\ displayedPokemon = <<>>
  /\ chosenPokemonId = NoChoice

\* C26: togglePokemon(id) changes whether id is disabled and whether no other
\* Pokemon is; it leaves the chosen Pokemon, the filters and the displayed
\* list as they were, also when id is the chosen Pokemon; and run twice on
\* the same id it leaves the disabled Pokemon as they were.
C26_ToggleFlipsOne ==
  /\ [][\A pokemonId \in DisplayedIds :
          TogglePokemon(pokemonId) =>
            /\ pokemonId \in disabledPokemon' <=> pokemonId \notin disabledPokemon
            /\ \A other \in (disabledPokemon \cup disabledPokemon') \ {pokemonId} :
                 other \in disabledPokemon' <=> other \in disabledPokemon
            /\ chosenPokemonId' = chosenPokemonId
            /\ currentFilters' = currentFilters
            /\ displayedPokemon' = displayedPokemon
            /\ typeCountState' = typeCountState]_vars
  /\ [](\A pokemonId \in DisplayedIds :
          /\ Toggled(Toggled(disabledPokemon, pokemonId), pokemonId) = disabledPokemon
          /\ Toggled(disabledPokemon, pokemonId) # disabledPokemon)

\* The session's two steps were the choice of a Pokemon and a click on its
\* card: it is disabled, and chosen still.
C26_Witness ==
  /\ ops = 2
  /\ lastOp = "TogglePokemon"
  /\ chosenPokemonId # NoChoice
  /\ disabledPokemon = {chosenPokemonId}

\* A step of a handler of the filter controls other than reset: a value
\* button, an "all" button, a mode switch, the type-count toggle, the name input.
FilterControlStep ==
  \/ \E value \in NameQueries : NameInput(value)
  \/ \E genNumber \in GenerationButtons : GenerationClick(genNumber)
  \/ GenerationAll
  \/ GenModeToggle
  \/ TypeModeToggle
  \/ \E clickedType \in TypeButtons : TypeClick(clickedType)
  \/ TypeAll
  \/ TypeCountToggle
  \/ \E stageNumber \in EvolutionButtons : EvolutionClick(stageNumber)
  \/ EvolutionAll
  \/ \E clickedCategory \in SpecialButtons : SpecialClick(clickedCategory)
  \/ \E clickedColor \in ColorButtons : ColorClick(clickedColor)

\* A step of a handler of the cards and of the chosen Pokemon's display.
SelectionStep ==
  \/ \E pokemonId \in DisplayedIds : TogglePokemon(pokemonId)
  \/ \E pokemonId \in DisplayedIds : ChooseIdentity(pokemonId)
  \/ ClearChosen
  \/ ChooseRandomPokemon

\* C27: the handlers of the filter controls leave the disabled Pokemon and
\* the chosen Pokemon as they were; togglePokemon and the handlers that
\* choose leave the filters, the name among them, and the displayed list as
\* they were; a step that changes both the filters and the disabled or
\* chosen Pokemon is a reset.
C27_FiltersAndSelectionApart ==
  [][/\ FilterControlStep =>
          /\ disabledPokemon' = disabledPokemon
          /\ chosenPokemonId' = chosenPokemonId
     /\ SelectionStep =>
          /\ currentFilters' = currentFilters
          /\ typeCountState' = typeCountState
          /\ displayedPokemon' = displayedPokemon
     /\ (/\ currentFilters' # currentFilters
         /\ disabledPokemon' # disabledPokemon \/ chosenPokemonId' # chosenPokemonId) =>
          /\ ResetAllPokemon
          /\ lastOp' = "ResetAllPokemon"]_vars

\* The type "all" button has just cleared the types while a Pokemon is
\* disabled and another one chosen.
C27_Witness ==
  /\ lastOp = "TypeAll"
  /\ chosenPokemonId # NoChoice
  /\ disabledPokemon # {}
  /\ chosenPokemonId \notin disabledPokemon
  /\ currentFilters.types = {}

\* ===== CLAIMS ON THE CATALOG AND ITS INGESTION =====
\* C28: once init has sorted the catalog, no handler changes it: it holds
\* the records the batches returned, with the fields they were returned
\* with, in ascending order of id, through every filtering, toggling,
\* choosing, reset and change of language.
C28_CatalogImmutable ==
  /\ [][allPokemon' = allPokemon]_vars
  /\ [](/\ allPokemon = SortById(Flatten([b \in 1..Len(batches) |-> BatchResults(b)]))
        /\ \A i \in 1..Len(allPokemon) : \A j \in 1..Len(allPokemon) :
             i < j => allPokemon[i].id < allPokemon[j].id
        /\ \A i \in 1..Len(displayedPokemon) :
             \E j \in 1..Len(allPokemon) : displayedPokemon[i] = allPokemon[j])

\* Three handlers have run, the last one a filter that leaves fewer Pokemon
\* displayed than the catalog holds, and a Pokemon is disabled: the catalog
\* is the five Pokemon 1..5 still.
C28_Witness ==
  /\ ops = 3
  /\ lastOp \in FilteringHandlers
  /\ disabledPokemon # {}
  /\ Len(displayedPokemon) < Len(allPokemon)
  /\ Ids(allPokemon) = <<1, 2, 3, 4, 5>>

\* The id part of the reference's url is a number of digits that is at most
\* MAX_POKEMON_ID.
HasCatalogId(pokemon) ==
  LET idPart == pokemon.url[Len(pokemon.url) - 1]
  IN /\ idPart # <<>>
     /\ \A i \in 1..Len(idPart) : IsDigit(idPart[i])
     /\ ParseDigits(idPart, 0) <= MAX_POKEMON_ID

\* made are the batches of the references of list that have a catalog id:
\* these and no others, each once, in list order, every batch but the last
\* of BATCH_SIZE references and the last of 1..BATCH_SIZE.
BatchesOf(list, made) ==
  /\ Flatten(made) = SelectSeq(list, HasCatalogId)
  /\ \A b \in 1..Len(made) :
       /\ Len(made[b]) >= 1
       /\ Len(made[b]) <= BATCH_SIZE
       /\ b < Len(made) => Len(made[b]) = BATCH_SIZE

\* C29: the references fetched for their details are exactly those of the
\* list whose id is a number at most 1025, each once: a reference with a
\* greater id or with no number is in no batch and leaves no record; and the
\* kept references are cut, in list order, into batches of BATCH_SIZE, the
\* last one of 1 to BATCH_SIZE.  Checked on the batches and calls of the
\* run, and before the run on every prefix of the list and on ids at the limit.
C29_KeptReferencesInBatches ==
  /\ pc \in {"batch", "loaded"} =>
       /\ BatchesOf(PokemonList, batches)
       /\ Len(chain) = Len(batches)
       /\ \A b \in 1..Len(batches) : Len(chain[b]) = Len(batches[b])
       /\ \A i \in 1..Len(PokemonList) :
            LET at == {bk \in Calls : batches[bk[1]][bk[2]] = PokemonList[i]}
            IN IF HasCatalogId(PokemonList[i])
               THEN Cardinality(at) = 1
               ELSE /\ at = {}
                    /\ PokemonList[i].dataId \notin CatalogIds
       /\ \A i \in 1..Len(allPokemon) :
            \E bk \in PushedCalls : CallData(bk).id = allPokemon[i].id
       /\ \A i \in 1..Len(allPokemon) : \A j \in 1..Len(allPokemon) :
            allPokemon[i].id = allPokemon[j].id => i = j
  /\ pc = "start" =>
       /\ \A n \in 0..Len(PokemonList) :
            BatchesOf(SubSeq(PokemonList, 1, n),
                      CreateBatches(FilteredList(SubSeq(PokemonList, 1, n))))
       /\ KeepReference(Reference(<<"1", "0", "2", "5">>, 1025))
       /\ ~KeepReference(Reference(<<"1", "0", "2", "6">>, 1026))
       /\ ~KeepReference(Reference(<<"9", "9", "9", "9">>, 9999))
       /\ ~KeepReference(Reference(<<>>, 0))
       /\ ~KeepReference(Reference(<<"x", "1">>, 1))
       /\ KeepReference(Reference(<<"0">>, 0))

\* The run has ended with no request failed: the five references 3, 1, 2,
\* 4, 5 were fetched in batches that end on a short one, and the references
\* 10001 and "x" have left no record.
C29_Witness ==
  /\ pc = "loaded"
  /\ Len(batches) >= 2
  /\ Len(batches[Len(batches)]) < BATCH_SIZE
  /\ [i \in 1..Len(Flatten(batches)) |-> Flatten(batches)[i].dataId] = <<3, 1, 2, 4, 5>>
  /\ CatalogIds = {1, 2, 3, 4, 5}

\* init() has ended, in one way or the other.
Terminated == pc \in {"loaded", "failed"}

\* C30: when every request settles, init() ends, either loaded (the catalog
\* sorted, the loading indicator hidden, the listeners installed) or failed
\* (the error text shown, the indicator not hidden, no listener installed),
\* and stays as it ended; which of the two is decided by the list request
\* alone; and progress is 100 only once the last batch has settled.
C30_IngestionTerminates ==
  /\ <>Terminated
  /\ [](pc = "loaded" =>
          /\ listFetch = "ok"
          /\ \A i \in 1..Len(allPokemon) : \A j \in 1..Len(allPokemon) :
               i < j => allPokemon[i].id < allPokemon[j].id
          /\ displayedPokemon = allPokemon
          /\ loadingHidden
          /\ listeners)
  /\ [](pc = "failed" =>
          /\ listFetch = "failed"
          /\ loadingText = "Error loading Pokemon. Please refresh."
          /\ ~loadingHidden
          /\ ~listeners)
  /\ [][Terminated => pc' = pc]_vars
  /\ [](progress = 100 =>
          /\ pc = "loaded"
          /\ \A bk \in Calls : Call(bk).pc = "done")
  /\ [](~Terminated => progress < 100 /\ ~listeners /\ ~loadingHidden)

\* init() has ended loaded after a generation request and a detail request
\* had failed: progress is 100 and the catalog lacks a Pokemon.
C30_Witness ==
  /\ pc = "loaded"
  /\ progress = 100
  /\ \E i \in 1..NumGenerations : generationFetch[i] = "failed"
  /\ Len(allPokemon) < Len(Flatten(batches))
  /\ loadingHidden

\* init() has ended failed: the list request failed after the generations
\* had answered.
C30_WitnessFailed ==
  /\ pc = "failed"
  /\ listFetch = "failed"
  /\ progress = 15

\* ===== CLAIMS ON THE DISPLAYED LIST, THE TYPE-COUNT TOGGLE AND THE MODES =====
\* C31: after init, whatever handlers have run - name input, value buttons,
\* mode switches, reset, and the selection of a language while a name is
\* searched for - the displayed list is what filterPokemon gives for the
\* catalog, the current filters and the current language.
C31_DisplayedIsFiltered ==
  displayedPokemon = FilterPokemon(allPokemon, currentFilters, currentLanguage)

\* The same when the last handler was one that calls filterPokemon.
DisplayedIsFilteredAfterFiltering ==
  lastOp \in FilteringHandlers \cup {"none"} => C31_DisplayedIsFiltered

\* C32 (src/app.js): the include set of the type count agrees with the
\* position of the type-count toggle - both with the empty set, single with
\* {single}, dual with {dual} - and the first click on the toggle after a
\* reset selects single.
C32_ToggleAgreesWithSet ==
  build = "app" =>
    /\ typeCountState = "both" <=> currentFilters.typeCount = {}
    /\ typeCountState = "single" <=> currentFilters.typeCount = {"single"}
    /\ typeCountState = "dual" <=> currentFilters.typeCount = {"dual"}
    /\ lastOp = "ResetAllPokemon" =>
         TypeCountCycle(currentFilters, typeCountState).filters.typeCount = {"single"}

\* The same in the sessions in which reset has not run since the toggle
\* last stood on both: the toggle's own clicks keep the two in step.
ToggleAgreesUntilReset ==
  (build = "app" /\ lastOp = "TypeCountToggle") =>
    /\ typeCountState = "both" <=> currentFilters.typeCount = {}
    /\ typeCountState = "single" <=> currentFilters.typeCount = {"single"}
    /\ typeCountState = "dual" <=> currentFilters.typeCount = {"dual"}

\* The position after pos on the toggle's cycle.
NextPosition(pos) ==
  CASE pos = "both" -> "single"
    [] pos = "single" -> "dual"
    [] OTHER -> "both"

\* The include set the toggle gives the type count on position pos.
PositionValue(pos) == IF pos = "both" THEN {} ELSE {pos}

\* C33: the type count is never excluded: the exclude set of the facet is
\* empty and its include set holds at most one of single and dual in every
\* state, and each click moves the toggle one step along both -> single ->
\* dual -> both and selects the value of the position it arrives on.
C33_TypeCountNeverExcluded ==
  /\ [](/\ currentFilters.notTypeCount = {}
        /\ currentFilters.typeCount \in {{}, {"single"}, {"dual"}}
        /\ typeCountState \in {"both", "single", "dual"})
  /\ [][TypeCountToggle =>
          /\ typeCountState' = NextPosition(typeCountState)
          /\ currentFilters'.typeCount = PositionValue(typeCountState')
          /\ currentFilters'.notTypeCount = {}]_vars

\* The session's three steps were clicks on the toggle: it is back on both,
\* nothing is included or excluded, and the whole catalog is displayed.
C33_Witness ==
  /\ ops = 3
  /\ lastOp = "TypeCountToggle"
  /\ typeCountState = "both"
  /\ currentFilters = InitialFilters
  /\ displayedPokemon = allPokemon

\* The number of generations the filters f have selected, included or excluded.
GenerationsSelected(f) == Len(f.generations) + Len(f.notGenerations)

\* C34 (part_000): in single mode the include set and the exclude set of the
\* generations hold one value at most between them, whatever value buttons,
\* "all" buttons, mode switches and resets have run.  Checked on every state
\* of the session, and early in the session on every selection multiple mode
\* can hold: the switch to single mode and each handler after it leave one
\* value at most.
C34_SingleModeHoldsOne ==
  /\ currentFilters.generationMode = "single" => GenerationsSelected(currentFilters) <= 1
  /\ (build = "part_000" /\ ops <= 1) =>
       \A selection \in GenerationSelections :
         LET switched == CollapseToSingle([currentFilters EXCEPT
                                             !.generations = selection[1],
                                             !.notGenerations = selection[2],
                                             !.generationMode = "single"])
         IN /\ GenerationsSelected(switched) <= 1
            /\ \A g \in GenerationButtons :
                 /\ GenerationsSelected(GenerationClicked(switched, g)) <= 1
                 /\ GenerationsSelected(
                      GenerationClicked(GenerationClicked(switched, g), g)) <= 1
            /\ GenerationsSelected(ResetFilters(switched)) = 0
            /\ ResetFilters(switched).generationMode = "single"

\* part_000, single mode: the session's two steps were clicks on generation
\* 1, which is excluded now and the only generation selected.
C34_Witness ==
  /\ build = "part_000"
  /\ ops = 2
  /\ lastOp = "GenerationClick"
  /\ currentFilters.generationMode = "single"
  /\ currentFilters.generations = <<>>
  /\ currentFilters.notGenerations = <<1>>
  /\ Ids(displayedPokemon) = <<3, 4>>

\* ===== CLAIMS ON THE ORDER OF THE ANSWERS =====
\* The generations that have answered.
AnsweredGenerations == {i \in 1..NumGenerations : generationFetch[i] = "ok"}

\* The index the first n answers leave when they come in the order given.
RECURSIVE IndexAfter(_, _)
IndexAfter(order, n) ==
  IF n = 0 THEN <<>> ELSE MapSpecies(IndexAfter(order, n - 1), order[n])

\* C35: the index does not depend on the order in which the generation
\* requests settle, also when a species is listed by more than one
\* generation: it is the index that the generations answered so far leave in
\* whichever order they answer, and so is the generation of every record.
C35_IndexOrderIndependent ==
  \A order \in Orderings(AnsweredGenerations) :
    /\ generationMap = IndexAfter(order, Len(order))
    /\ \A i \in 1..Len(allPokemon) :
         LET species == PokemonData(allPokemon[i].id).species
             index == IndexAfter(order, Len(order))
         IN allPokemon[i].generation = IF species \in DOMAIN index THEN index[species] ELSE 1

\* The same for the species one answered generation lists and no other: the
\* index maps it to that generation, whatever the order.
IndexOfSpeciesListedOnce ==
  \A species \in DOMAIN generationMap :
    \A i \in AnsweredGenerations :
      (\A j \in AnsweredGenerations : species \in GenerationSpecies(j) <=> j = i) =>
        generationMap[species] = i

\* Both orders of the two generations that list the species "sd" happen.
IndexOfSpeciesListedTwiceEarlierWins ==
  (2 \in AnsweredGenerations /\ 3 \in AnsweredGenerations) => generationMap["sd"] = 2

IndexOfSpeciesListedTwiceLaterWins ==
  (2 \in AnsweredGenerations /\ 3 \in AnsweredGenerations) => generationMap["sd"] = 3

\* The record a call returns, from the answers its own requests got: logged
\* names the request that failed, "none" when all answered.
RecordOfAnswers(data, logged) ==
  LET speciesData == SpeciesData(data.species)
      answered == logged # "species"
      generation == IF data.species \in DOMAIN generationMap
                    THEN generationMap[data.species] ELSE 1
  IN IF build = "app"
     THEN [id |-> data.id, name |-> data.name,
           names |-> IF answered THEN ExtractNames(speciesData.names, <<>>) ELSE <<>>,
           types |-> data.types, generation |-> generation,
           evolutionStage |->
             IF logged = "none" /\ speciesData.evolves_from_species # "none"
             THEN StageFromPrevious(SpeciesData(speciesData.evolves_from_species))
             ELSE 1,
           isBaby |-> answered /\ speciesData.is_baby,
           isLegendary |-> answered /\ speciesData.is_legendary,
           isMythical |-> answered /\ speciesData.is_mythical,
           color |-> IF answered THEN speciesData.color ELSE "none"]
     ELSE [id |-> data.id, name |-> data.name, types |-> data.types,
           generation |-> generation]

\* The place of a call's record among the records of the calls given: by id
\* once sorted, by batch and position in the batch before.
PlaceById(bk, calls) ==
  1 + Cardinality({x \in calls : CallData(x).id < CallData(bk).id})

PlaceInList(bk, calls) ==
  1 + Cardinality({x \in calls : x[1] < bk[1] \/ (x[1] = bk[1] /\ x[2] < bk[2])})

\* C36: the catalog does not depend on the order in which the calls of a
\* batch complete.  Once init() has loaded, every call has returned and the
\* catalog is the records of the calls whose detail request answered, each
\* the record its own answers give, in ascending id order; while the batches
\* run, what has been pushed is the same records in list order.
C36_CatalogOrderIndependent ==
  LET returned == {bk \in PushedCalls : Call(bk).logged # "detail"}
  IN /\ pc = "loaded" => \A bk \in Calls : Call(bk).pc = "done"
     /\ pc \in {"batch", "loaded"} =>
          /\ Len(allPokemon) = Cardinality(returned)
          /\ \A bk \in returned :
               allPokemon[IF pc = "loaded" THEN PlaceById(bk, returned)
                          ELSE PlaceInList(bk, returned)]
                 = RecordOfAnswers(CallData(bk), Call(bk).logged)

\* init() has loaded a catalog of three batches whose first batch the list
\* gave out of id order, with a failed request in one call of a batch and
\* none in its sibling.
C36_Witness ==
  /\ pc = "loaded"
  /\ Len(batches) = 3
  /\ Len(allPokemon) >= 4
  /\ batches[1][1].dataId > batches[1][2].dataId
  /\ allPokemon[1].id = batches[1][2].dataId
  /\ \E bk1 \in Calls : \E bk2 \in Calls :
       bk1[1] = bk2[1] /\ Call(bk1).logged = "prev" /\ Call(bk2).logged = "none"

\* The calls of a batch complete in either order: the second has returned
\* while the first waits, and the first while the second waits.
SecondReturnedFirst ==
  \E b \in 1..Len(chain) :
    Len(chain[b]) = 2 /\ chain[b][1].pc \in {"detail", "species", "prev"} /\ chain[b][2].pc = "done"

FirstReturnedFirst ==
  \E b \in 1..Len(chain) :
    Len(chain[b]) = 2 /\ chain[b][2].pc \in {"detail", "species", "prev"} /\ chain[b][1].pc = "done"

\* ===== CLAIMS ON THE PAGE FROM DOMContentLoaded ON =====
\* What init() has set up, which no handler writes.
IngestionState ==
  <<pc, generationFetch, generationMap, listFetch, batches, chain, batchIndex,
    allPokemon, progress, loadingText, loadingHidden>>

\* Every batch has been pushed and the catalog is in ascending id order.
CatalogComplete ==
  /\ pc = "loaded"
  /\ \A b \in 1..Len(chain) : \A k \in 1..Len(chain[b]) : chain[b][k].pc = "done"
  /\ Len(allPokemon) =
       Cardinality({bk \in Calls : Call(bk).result # <<>>})
  /\ \A bk \in Calls :
       Call(bk).result # <<>> => \E i \in 1..Len(allPokemon) : allPokemon[i] = Call(bk).result[1]
  /\ \A i \in 1..Len(allPokemon) : \A j \in 1..Len(allPokemon) :
       i < j => allPokemon[i].id < allPokemon[j].id

\* C37: no filter or selection handler runs before init() has pushed the last
\* batch and sorted the catalog: a handler's step starts and ends with the
\* complete sorted catalog, which it leaves as it is, and before that no
\* handler has run and the selection and the display are as the script
\* created them.  init() runs once: it never stands at its start again, and
\* what it has loaded no later step changes.
C37_NoHandlerBeforeLoaded ==
  /\ [](ops > 0 => CatalogComplete)
  /\ [](pc # "loaded" =>
          /\ ops = 0 /\ lastOp = "none"
          /\ displayedPokemon = <<>> /\ disabledPokemon = {}
          /\ chosenPokemonId = NoChoice /\ currentFilters = InitialFilters)
  /\ [][/\ ops' # ops =>
             /\ CatalogComplete
             /\ IngestionState' = IngestionState
        /\ pc # "start" => pc' # "start"
        /\ pc \in {"loaded", "failed"} => IngestionState' = IngestionState]_vars

\* The name field's handler has run as the first, on a catalog that init()
\* loaded with one detail request failed, and narrowed the display.
C37_Witness ==
  /\ pc = "loaded"
  /\ ops = 1
  /\ lastOp = "NameInput"
  /\ Len(allPokemon) = 4
  /\ Len(displayedPokemon) \in 1..3
  /\ \E bk \in Calls : Call(bk).logged = "detail"

\* ===== CLAIMS ON THE POKEMON WITHOUT A COLOR OR A FLAG =====
\* The Pokemon of the catalog with no color, and those with no flag.
Colorless == {p \in Catalog : p.color = "none"}

Flagless == {p \in Catalog : ~p.isBaby /\ ~p.isLegendary /\ ~p.isMythical}

InList(p, list) == \E i \in 1..Len(list) : list[i] = p

\* C38: a Pokemon of no color is displayed under no non-empty color include
\* set, and no color exclude set removes it: it is displayed exactly when the
\* filters without the excluded colors display it.  The same holds for a
\* Pokemon with none of the three flags and the special include and exclude
\* sets.  Checked on the filters a handler has just filtered with and, early in
\* the session, on every include and exclude set alone.
C38_NoValueNeverMatches ==
  build = "app" =>
    /\ lastOp \in FilteringHandlers =>
         /\ currentFilters.colors # {} =>
              \A p \in Colorless : ~InList(p, displayedPokemon)
         /\ currentFilters.specialCategories # {} =>
              \A p \in Flagless : ~InList(p, displayedPokemon)
         /\ \A p \in Colorless :
              InList(p, displayedPokemon) <=>
                InList(p, FilterPokemon(allPokemon, [currentFilters EXCEPT !.notColors = {}],
                                        currentLanguage))
         /\ \A p \in Flagless :
              InList(p, displayedPokemon) <=>
                InList(p, FilterPokemon(allPokemon,
                                        [currentFilters EXCEPT !.notSpecialCategories = {}],
                                        currentLanguage))
    /\ ops <= 1 =>
         /\ \A S \in (SUBSET ColorButtons) \ {{}} : \A p \in Colorless :
              /\ ~InList(p, FilterPokemon(allPokemon, [InitialFilters EXCEPT !.colors = S],
                                          currentLanguage))
              /\ InList(p, FilterPokemon(allPokemon, [InitialFilters EXCEPT !.notColors = S],
                                         currentLanguage))
         /\ \A S \in (SUBSET SpecialButtons) \ {{}} : \A p \in Flagless :
              /\ ~InList(p, FilterPokemon(allPokemon,
                                          [InitialFilters EXCEPT !.specialCategories = S],
                                          currentLanguage))
              /\ InList(p, FilterPokemon(allPokemon,
                                         [InitialFilters EXCEPT !.notSpecialCategories = S],
                                         currentLanguage))

\* Red is excluded and then blue included: the Pokemon of no color, which the
\* exclusion of red had left on display, is gone.
C38_Witness ==
  /\ build = "app"
  /\ ops = 3
  /\ lastOp = "ColorClick"
  /\ currentFilters = [InitialFilters EXCEPT !.colors = {"blue"}, !.notColors = {"red"}]
  /\ Colorless # {}
  /\ Ids(displayedPokemon) = <<3, 4>>

\* Red is excluded: the Pokemon of no color stays on display.
C38_WitnessExcluded ==
  /\ build = "app"
  /\ ops = 2
  /\ lastOp = "ColorClick"
  /\ currentFilters = [InitialFilters EXCEPT !.notColors = {"red"}]
  /\ Ids(displayedPokemon) = <<3, 4, 5>>

\* Legendary is excluded: the two Pokemon with no flag stay on display, with
\* the baby.
C38_WitnessFlagless ==
  /\ build = "app"
  /\ ops = 2
  /\ lastOp = "SpecialClick"
  /\ currentFilters = [InitialFilters EXCEPT !.notSpecialCategories = {"legendary"}]
  /\ Cardinality(Flagless) = 2
  /\ Ids(displayedPokemon) = <<1, 2, 3>>

\* The state InitSession starts from is one init() ends in.
SessionStartReached ==
  /\ pc = "loaded"
  /\ generationMap = GenerationsLoaded(NumGenerations)
  /\ chain = [b \in 1..Len(batches) |->
                [k \in 1..Len(batches[b]) |-> CompletedCall(DataOf(b, k))]]
  /\ allPokemon = SortById(Flatten([b \in 1..Len(batches) |-> BatchResults(b)]))
  /\ displayedPokemon = allPokemon
  /\ batchIndex = Len(batches) - 1
  /\ \A i \in 1..NumGenerations : generationFetch[i] = "ok"

NotSessionStart == ~SessionStartReached

====
